---------------------------- MODULE Spec2Model ----------------------------
(***************************************************************************)
(* varset: a directory-scoped environment-variable manager.                *)
(*                                                                         *)
(* The module models the permission store (permissions.ts), the            *)
(* configuration parser and the directory-chain loader (loader.ts), the    *)
(* profile store (profiles.ts), the path validator (validation.ts), the    *)
(* reload command and the self-update command (commands/update.ts).        *)
(*                                                                         *)
(* A path is the sequence of its segments: "/h/a/.envrc" is                *)
(* <<"h", "a", ".envrc">> and "/" is << >>.  A configuration value is the   *)
(* sequence of its lexical tokens: single characters (letters, blanks,     *)
(* quotes) and whole references "${NAME}".                                  *)
(***************************************************************************)
EXTENDS Integers, Sequences, FiniteSets, TLC

VARIABLES
    exists,      \* the configuration files present on disk (physical paths)
    storeKind,   \* the permissions file: "missing", "corrupt", "oversize", "json"
    perms,       \* its entries when it is JSON: canonical path -> entry
    others,      \* number of further entries, for paths outside the model
    now,         \* Date.now()
    ret,         \* what the last operation returned or raised
    lastOp,      \* per file: the most recent grant / revoke since the
                 \* filesystem last changed ("none", "grant", "revoke", "unknown")
    content,     \* the text given to parseEnvFile: a sequence of lines
    parsed,      \* what parseEnvFile returned or raised for it
    textKind,    \* per configuration file: "good", "cyclic", "oversize" or
                 \* "longkey" text
    profiles,    \* the profile store: canonical directory -> profile name
    env,         \* what the last load returned
    profOp,      \* the last call on the profile store and what it raised
    checked,     \* the last call of validateAndResolvePath and its outcome
    walked,      \* the upward walk of loadEnvRecursive, step by step
    inv,         \* the invocations of the tool that run side by side
    update       \* handleUpdate, step by step

storeVars == <<exists, storeKind, perms, others, now, ret, lastOp>>

parseVars == <<content, parsed>>

loadVars == <<textKind, profiles, env, profOp>>

auxVars == <<checked, walked, inv, update>>

vars == <<storeVars, parseVars, loadVars, auxVars>>

(***************************************************************************)
(* Bounds of the model.                                                    *)
(***************************************************************************)
\* Date.now() runs from 1 to MaxTime: at most MaxTime grants and revokes.
MaxTime == 3

\* A parsed text is at most MaxLines lines drawn from SampleLines, or a chain
\* L0=${L1}, L1=${L2}, ... of at most MaxChain references.
MaxLines == 2

MaxChain == 12

(***************************************************************************)
(* Program constants (constants.ts).                                       *)
(***************************************************************************)
MAX_PERMISSIONS_ENTRIES == 10000

MAX_INTERPOLATION_DEPTH == 10

\* 1024 * 1024
MAX_FILE_SIZE == 1048576

\* name.length > 255 in validateVariableName
MAX_VARIABLE_NAME_LENGTH == 255

HOME_DIR == <<"h">>

ENVRC_FILENAME == ".envrc"

(***************************************************************************)
(* The filesystem.  Directories /, /h (home), /h/a; /h/l is a symbolic     *)
(* link to /h/a.  The directories are fixed; configuration files come and  *)
(* go.                                                                     *)
(***************************************************************************)
PhysDirs == { << >>, <<"h">>, <<"h", "a">> }

LinkPath == <<"h", "l">>

LinkTarget == <<"h", "a">>

\* The configuration files that may exist, by physical path.
PhysFiles == { <<"h", ".envrc">>, <<"h", ".envrc.dev">>,
               <<"h", "a", ".envrc">>, <<"h", "a", ".envrc.dev">> }

\* The result of a failed filesystem call (ENOENT).
ENOENT == <<"ENOENT">>

Front(p) == SubSeq(p, 1, Len(p) - 1)

Last(p) == p[Len(p)]

\* path.dirname of an absolute path.
dirname(p) == IF p = << >> THEN << >> ELSE Front(p)

RECURSIVE walk(_, _, _)
\* fs.realpath: follow the segments of `rest` from the physical node `cur`,
\* resolving "..", "." and symbolic links; ENOENT when a node does not exist.
walk(files, cur, rest) ==
    IF rest = << >> THEN cur
    ELSE LET seg == Head(rest)
             cand == cur \o <<seg>>
         IN  IF cur \notin PhysDirs THEN ENOENT
             ELSE IF seg = ".." THEN walk(files, dirname(cur), Tail(rest))
             ELSE IF seg = "." THEN walk(files, cur, Tail(rest))
             ELSE IF cand = LinkPath THEN walk(files, LinkTarget, Tail(rest))
             ELSE IF cand \in PhysDirs \cup files
                  THEN walk(files, cand, Tail(rest))
             ELSE ENOENT

realpathIn(files, p) == walk(files, << >>, p)

realpath(p) == realpathIn(exists, p)

RECURSIVE lexical(_, _)
\* path.resolve of an absolute path: "." and ".." are removed lexically, and
\* symbolic links are not followed.
lexical(done, rest) ==
    IF rest = << >> THEN done
    ELSE LET seg == Head(rest)
         IN  IF seg = ".." THEN lexical(dirname(done), Tail(rest))
             ELSE IF seg = "." THEN lexical(done, Tail(rest))
             ELSE lexical(done \o <<seg>>, Tail(rest))

pathResolve(p) == lexical(<< >>, p)

\* path.join(dir, name): the joined path, normalised lexically.
join(dir, name) == pathResolve(dir \o <<name>>)

\* Bun.file(p).exists(): the path names a regular file (links are followed).
fileExistsIn(files, p) == realpathIn(files, p) \in files

fileExists(p) == fileExistsIn(exists, p)


(***************************************************************************)
(* The permission store (permissions.ts).                                  *)
(***************************************************************************)
\* The empty store {}.
NoPerms == [k \in {} |-> [allowed |-> FALSE, timestamp |-> 0]]

\* filePath.includes(".."): the raw string holds two dots in a row.
TraversalSegs == { "..", "x..y" }

hasTraversal(p) == \E i \in 1..Len(p) : p[i] \in TraversalSegs

\* The empty string given as a path.
EmptyPath == <<"">>

\* The check as a slip would leave it: no test for a traversal.
validatePathSafetyLax(p) == IF p = EmptyPath THEN "ValidationError" ELSE "none"

\* validatePathSafety: what it raises ("none" when it returns).  What follows
\* the traversal check only prints a warning.
validatePathSafety(p) ==
    IF p = EmptyPath THEN "ValidationError"
    ELSE IF hasTraversal(p) THEN "SecurityError"
    ELSE "none"

\* normalizePath: realpath, and path.resolve when realpath fails.
normalizePathIn(files, p) ==
    IF realpathIn(files, p) # ENOENT THEN realpathIn(files, p) ELSE pathResolve(p)

normalizePath(p) == normalizePathIn(exists, p)

\* loadPermissions as a slip would leave it: the syntax error of a corrupt
\* file is not caught.
loadPermissionsUncaught(k, ps, n) ==
    IF k = "oversize"
    THEN [raised |-> "ValidationError", perms |-> NoPerms, others |-> 0]
    ELSE IF k = "corrupt"
    THEN [raised |-> "SyntaxError", perms |-> NoPerms, others |-> 0]
    ELSE IF k = "missing"
    THEN [raised |-> "none", perms |-> NoPerms, others |-> 0]
    ELSE IF Cardinality(DOMAIN ps) + n > MAX_PERMISSIONS_ENTRIES
    THEN [raised |-> "ValidationError", perms |-> NoPerms, others |-> 0]
    ELSE [raised |-> "none", perms |-> ps, others |-> n]

\* loadPermissions on a permissions file (k: its kind, ps: its entries,
\* n: its further entries).  A missing file and a syntax error give {}; the
\* size and the entry-count checks raise a ValidationError.
loadPermissionsOf(k, ps, n) ==
    IF k = "oversize"
    THEN [raised |-> "ValidationError", perms |-> NoPerms, others |-> 0]
    ELSE IF k \in {"missing", "corrupt"}
    THEN [raised |-> "none", perms |-> NoPerms, others |-> 0]
    ELSE IF Cardinality(DOMAIN ps) + n > MAX_PERMISSIONS_ENTRIES
    THEN [raised |-> "ValidationError", perms |-> NoPerms, others |-> 0]
    ELSE [raised |-> "none", perms |-> ps, others |-> n]

loadPermissions == loadPermissionsOf(storeKind, perms, others)

\* perms[absPath] = entry
setEntry(ps, key, entry) ==
    [k \in DOMAIN ps \cup {key} |-> IF k = key THEN entry ELSE ps[k]]

\* The entry allow writes.
allowEntry(t) == [allowed |-> TRUE, timestamp |-> t]

\* deny as a slip would write it: the flag of allow.
denyEntryAllowed(t) == [allowed |-> TRUE, timestamp |-> t]

\* The entry deny writes.
denyEntry(t) == [allowed |-> FALSE, timestamp |-> t]

\* The lookup as a slip would write it: any entry admits, revoked or not.
entryPresent(ps, key) == key \in DOMAIN ps

\* The lookup that ends isAllowed: no entry is false, else entry.allowed.
entryAllows(ps, key) == key \in DOMAIN ps /\ ps[key].allowed = TRUE

\* isAllowed on a given disk and permissions file: a failed path-safety
\* check is false, a failed load is raised.
isAllowedIn(files, k, ps, n, p) ==
    IF validatePathSafety(p) # "none" THEN [raised |-> "none", value |-> FALSE]
    ELSE LET absPath == normalizePathIn(files, p)
             loaded == loadPermissionsOf(k, ps, n)
         IN  IF loaded.raised # "none"
             THEN [raised |-> loaded.raised, value |-> FALSE]
             ELSE [raised |-> "none", value |-> entryAllows(loaded.perms, absPath)]

isAllowed(p) == isAllowedIn(exists, storeKind, perms, others, p)

\* prune as a slip would test it: the key itself must be a file on disk, a
\* key reached through a symbolic link counts as gone.
isStaleNoFollow(key) == key \notin exists

\* The entries prune deletes: those whose path Bun.file(path).exists() denies.
isStale(key) == ~fileExists(key)

pruned(ps) == [k \in {x \in DOMAIN ps : ~isStale(x)} |-> ps[k]]

\* The file a path denotes: the symlink-resolved path, or the lexical path
\* when nothing exists there.
FileOf(p) == IF realpath(p) # ENOENT THEN realpath(p) ELSE pathResolve(p)

\* The paths given to the store operations, and the keys they can write.
StoreFiles == { <<"h", ".envrc">>, <<"h", "a", ".envrc">> }

StorePaths == StoreFiles \cup { <<"h", "l", ".envrc">>,
                                <<"h", "a", "..", ".envrc">> }

StoreKeys == StoreFiles \cup { <<"h", "l", ".envrc">> }

Ret(op, p, raised, removed, saved) ==
    [op |-> op, path |-> p, raised |-> raised, removed |-> removed, saved |-> saved]

\* allow / deny: validate, normalise, load, set the entry, save.
setPermission(op, p, entry) ==
    LET unsafe == validatePathSafety(p)
        absPath == normalizePath(p)
        loaded == loadPermissions
    IN  /\ now < MaxTime
        /\ now' = now + 1
        /\ UNCHANGED exists
        /\ IF unsafe # "none"
           THEN /\ ret' = Ret(op, p, unsafe, 0, FALSE)
                /\ UNCHANGED <<storeKind, perms, others, lastOp>>
           ELSE IF loaded.raised # "none"
           THEN /\ ret' = Ret(op, p, loaded.raised, 0, FALSE)
                /\ UNCHANGED <<storeKind, perms, others, lastOp>>
           ELSE /\ storeKind' = "json"
                /\ perms' = setEntry(loaded.perms, absPath, entry)
                /\ others' = loaded.others
                /\ ret' = Ret(op, p, "none", 0, TRUE)
                /\ lastOp' = [lastOp EXCEPT ![FileOf(p)] =
                                 IF op = "allow" THEN "grant" ELSE "revoke"]

allow(p) == setPermission("allow", p, allowEntry(now + 1))

deny(p) == setPermission("deny", p, denyEntry(now + 1))

\* prune: load, delete the stale entries, save when one was deleted.
prune ==
    LET loaded == loadPermissions
        kept == pruned(loaded.perms)
        removed == Cardinality(DOMAIN loaded.perms) - Cardinality(DOMAIN kept)
    IN  /\ UNCHANGED <<exists, now>>
        /\ lastOp' = [k \in StoreKeys |-> "unknown"]
        /\ IF loaded.raised # "none"
           THEN /\ ret' = Ret("prune", << >>, loaded.raised, 0, FALSE)
                /\ UNCHANGED <<storeKind, perms, others>>
           ELSE IF removed > 0
           THEN /\ storeKind' = "json"
                /\ perms' = kept
                /\ others' = loaded.others
                /\ ret' = Ret("prune", << >>, "none", removed, TRUE)
           ELSE /\ ret' = Ret("prune", << >>, "none", 0, FALSE)
                /\ UNCHANGED <<storeKind, perms, others>>

\* The environment: a configuration file is deleted or created.
unlink(f) ==
    /\ f \in exists
    /\ exists' = exists \ {f}
    /\ ret' = Ret("unlink", f, "none", 0, FALSE)
    /\ lastOp' = [k \in StoreKeys |-> "unknown"]
    /\ UNCHANGED <<storeKind, perms, others, now>>

create(f) ==
    /\ f \notin exists
    /\ exists' = exists \cup {f}
    /\ ret' = Ret("create", f, "none", 0, FALSE)
    /\ lastOp' = [k \in StoreKeys |-> "unknown"]
    /\ UNCHANGED <<storeKind, perms, others, now>>

(***************************************************************************)
(* The configuration parser (loader.ts: parseEnvFile,                      *)
(* interpolateVariables).  A line is the sequence of its tokens: a blank,  *)
(* "#", "=", a quote, the word export, a name, a letter of a value, or a   *)
(* whole reference "${NAME}".                                               *)
(***************************************************************************)
DQ == "\""

SQ == "'"

\* The name of the i-th variable of a chain of references.
ChainName(i) == "L" \o ToString(i)

ChainNames == { ChainName(i) : i \in 0..(MaxChain + 1) }

\* DANGEROUS_ENV_VARS
DANGEROUS_ENV_VARS ==
    { "LD_PRELOAD", "LD_LIBRARY_PATH", "LD_AUDIT", "LD_BIND_NOW",
      "DYLD_INSERT_LIBRARIES", "DYLD_LIBRARY_PATH", "DYLD_PRELOAD",
      "DYLD_FRAMEWORK_PATH", "DYLD_FALLBACK_LIBRARY_PATH",
      "ASAN_PRELOAD", "UBSAN_PRELOAD", "TSAN_PRELOAD", "LSAN_PRELOAD",
      "PATH", "PYTHONPATH", "RUBYLIB", "PERL5LIB", "NODE_PATH", "GEM_PATH",
      "JAVA_TOOL_OPTIONS", "SHELL", "ZDOTDIR", "ENV", "BASH_ENV", "ZSH_ENV",
      "POSIXLY_CORRECT", "TERMINFO", "TERMINFO_DIRS", "LD_DEBUG",
      "CONDA_PREFIX", "VIRTUAL_ENV", "GOPATH", "RUSTUP_HOME", "CARGO_HOME" }

\* n times the character c.
Rep(c, n) == [i \in 1..n |-> c]

RECURSIVE nameOf(_)
\* The string of a sequence of characters.
nameOf(cs) == IF cs = << >> THEN "" ELSE Head(cs) \o nameOf(Tail(cs))

\* A variable name one character longer than validateVariableName admits.
LongName == nameOf(Rep("K", MAX_VARIABLE_NAME_LENGTH + 1))

\* The tokens that match /^[A-Za-z_][A-Za-z0-9_]*$/.  ("1A" and the
\* punctuation tokens do not.)
NameTokens ==
    { "A", "B", "X", "V", "U", "a", "b", "export", "path", LongName,
      "HB", "HP", "AB", "AP", "hB", "hP", "aB", "aP",
      "hasOwnProperty", "constructor", "__proto__" }
        \cup ChainNames \cup DANGEROUS_ENV_VARS

\* The reference ${name}.
Ref(name) == "${" \o name \o "}"

\* A token that /\$\{([A-Za-z_][A-Za-z0-9_]*)\}/ matches, and the name in it.
isRef(tok) == \E n \in NameTokens : tok = Ref(n)

refName(tok) == CHOOSE n \in NameTokens : tok = Ref(n)

RECURSIVE trimStart(_)
trimStart(s) == IF s # << >> /\ Head(s) = " " THEN trimStart(Tail(s)) ELSE s

RECURSIVE trimEnd(_)
trimEnd(s) == IF s # << >> /\ Last(s) = " " THEN trimEnd(Front(s)) ELSE s

\* String.prototype.trim
trim(s) == trimEnd(trimStart(s))

startsWith(s, tok) == s # << >> /\ Head(s) = tok

endsWith(s, tok) == s # << >> /\ Last(s) = tok

\* indexOf: the first position of tok, 0 when there is none (-1 in the code).
indexOf(s, tok) ==
    IF \E i \in 1..Len(s) : s[i] = tok
    THEN CHOOSE i \in 1..Len(s) : s[i] = tok /\ \A j \in 1..(i - 1) : s[j] # tok
    ELSE 0

\* value.slice(1, -1)
sliceInner(s) == SubSeq(s, 2, Len(s) - 1)

\* The quote test of parseEnvFile: the value starts and ends with the same
\* kind of quote.
isQuoted(value) ==
    \/ (startsWith(value, DQ) /\ endsWith(value, DQ))
    \/ (startsWith(value, SQ) /\ endsWith(value, SQ))

unquote(value) == IF isQuoted(value) THEN sliceInner(value) ELSE value

\* key && /^[A-Za-z_][A-Za-z0-9_]*$/.test(key)
isValidKey(keyToks) == Len(keyToks) = 1 /\ keyToks[1] \in NameTokens

\* The test of the first parser, which filtered nothing.
isDangerousNever(key) == FALSE

\* DANGEROUS_ENV_VARS.has(key)
isDangerous(key) == key \in DANGEROUS_ENV_VARS

\* One line of the loop of parseEnvFile: what it assigns, if anything.
parseLine(line) ==
    LET trimmed == trim(line)
        cleanLine == IF Len(trimmed) >= 2 /\ trimmed[1] = "export" /\ trimmed[2] = " "
                     THEN SubSeq(trimmed, 3, Len(trimmed))
                     ELSE trimmed
        eqIndex == indexOf(cleanLine, "=")
        keyToks == trim(SubSeq(cleanLine, 1, eqIndex - 1))
        value == unquote(trim(SubSeq(cleanLine, eqIndex + 1, Len(cleanLine))))
    IN  IF trimmed = << >> \/ startsWith(trimmed, "#") \/ eqIndex = 0
           \/ ~isValidKey(keyToks)
        THEN [assigns |-> FALSE, dangerous |-> FALSE, key |-> "", value |-> << >>]
        ELSE [assigns |-> ~isDangerous(keyToks[1]),
              dangerous |-> isDangerous(keyToks[1]),
              key |-> keyToks[1], value |-> value]

\* An object of variables: its own keys in insertion order, and their values.
NoVars == [order |-> << >>, val |-> [k \in {} |-> << >>]]

\* vars[key] = value on an object literal.  An assignment to __proto__ of a
\* string creates no property.
put(vs, key, value) ==
    IF key = "__proto__" THEN vs
    ELSE [order |-> IF key \in DOMAIN vs.val THEN vs.order ELSE Append(vs.order, key),
          val |-> [k \in DOMAIN vs.val \cup {key} |->
                      IF k = key THEN value ELSE vs.val[k]]]

RECURSIVE collect(_, _)
\* The loop over the lines: later lines overwrite earlier ones.
collect(lines, vs) ==
    IF lines = << >> THEN vs
    ELSE LET l == parseLine(Head(lines))
         IN  collect(Tail(lines), IF l.assigns THEN put(vs, l.key, l.value) ELSE vs)

\* The keys of the lines dropped as dangerous.
dangerousOf(lines) ==
    { parseLine(lines[i]).key : i \in {j \in 1..Len(lines) : parseLine(lines[j]).dangerous} }

Returned(value) == [raised |-> "none", kind |-> "none", val |-> value]

Raised(error, kind) == [raised |-> error, kind |-> kind, val |-> << >>]

\* The circular-reference branch of resolve, as a slip would have it: the
\* reference resolves to nothing.
cycleIgnored(key, visiting) == Returned(<< >>)

\* The circular-reference branch of resolve.
cycleError(key, visiting) == Raised("ValidationError", "cycle")

\* The depth branch of resolve.
depthError(key) == Raised("ValidationError", "depth")

\* An undefined reference as a shell would expand it: to nothing.
undefinedRefDropped(match) == << >>

\* The replacement of a reference to an undefined name: the match itself.
undefinedRef(match) == <<match>>

\* vars.hasOwnProperty(varName): raises a TypeError when the file defines a
\* variable named hasOwnProperty, whose value shadows the method.
hasOwnProperty(vs, varName) ==
    IF "hasOwnProperty" \in DOMAIN vs.val THEN "TypeError"
    ELSE IF varName \in DOMAIN vs.val THEN "own"
    ELSE "absent"

RECURSIVE resolve(_, _, _, _)
RECURSIVE replaceAll(_, _, _, _)
\* The value a reference is replaced by, as a slip would have it: the raw
\* value of the variable, its own references left unresolved.
substituteRaw(vs, varName, newVisiting, depth) == Returned(vs.val[varName])

\* The value a reference to a defined variable is replaced by.
substitute(vs, varName, newVisiting, depth) ==
    resolve(vs, varName, newVisiting, depth + 1)

\* resolve(key, visiting, depth) of interpolateVariables.
resolve(vs, key, visiting, depth) ==
    LET value == vs.val[key]
    IN  IF value = << >> THEN Returned(<< >>)
        ELSE IF depth > MAX_INTERPOLATION_DEPTH THEN depthError(key)
        ELSE IF key \in visiting THEN cycleError(key, visiting)
        ELSE replaceAll(vs, value, visiting \cup {key}, depth)

\* value.replace(/\$\{...\}/g, callback): the tokens from left to right; the
\* first callback that raises ends the replacement.
replaceAll(vs, toks, newVisiting, depth) ==
    IF toks = << >> THEN Returned(<< >>)
    ELSE LET tok == Head(toks)
             own == hasOwnProperty(vs, refName(tok))
             first == IF ~isRef(tok) THEN Returned(<<tok>>)
                      ELSE IF own = "TypeError" THEN Raised("TypeError", "hasOwnProperty")
                      ELSE IF own = "absent" THEN Returned(undefinedRef(tok))
                      ELSE substitute(vs, refName(tok), newVisiting, depth)
         IN  IF first.raised # "none" THEN first
             ELSE LET rest == replaceAll(vs, Tail(toks), newVisiting, depth)
                  IN  IF rest.raised # "none" THEN rest
                      ELSE Returned(first.val \o rest.val)

\* What parseEnvFile gives: a mapping, or the error raised.
NoMapping == [k \in {} |-> << >>]

ParseResult(raised, kind, mapping) ==
    [done |-> TRUE, raised |-> raised, kind |-> kind, vars |-> mapping]

NotParsed == [done |-> FALSE, raised |-> "none", kind |-> "none", vars |-> NoMapping]

RECURSIVE resolveKeys(_, _, _)
\* The loop of interpolateVariables over Object.keys(vars).
resolveKeys(vs, keys, resolved) ==
    IF keys = << >> THEN ParseResult("none", "none", resolved)
    ELSE LET r == resolve(vs, Head(keys), {}, 0)
         IN  IF r.raised # "none" THEN ParseResult(r.raised, r.kind, NoMapping)
             ELSE resolveKeys(vs, Tail(keys),
                     [k \in DOMAIN resolved \cup {Head(keys)} |->
                         IF k = Head(keys) THEN r.val ELSE resolved[k]])

interpolateVariables(vs) == resolveKeys(vs, vs.order, NoMapping)

RECURSIVE collectAll(_, _)
\* The loop over the lines with the dangerous keys stored like the others.
collectAll(lines, vs) ==
    IF lines = << >> THEN vs
    ELSE LET l == parseLine(Head(lines))
         IN  collectAll(Tail(lines),
                IF l.assigns \/ l.dangerous THEN put(vs, l.key, l.value) ELSE vs)

\* parseEnvFile as a slip would write it: the dangerous keys are removed
\* from the interpolated mapping instead of never being stored.
parseEnvFileLateFilter(lines) ==
    LET r == interpolateVariables(collectAll(lines, NoVars))
    IN  [r EXCEPT !.vars = [k \in DOMAIN r.vars \ DANGEROUS_ENV_VARS |-> r.vars[k]]]

parseEnvFile(lines) == interpolateVariables(collect(lines, NoVars))

(***************************************************************************)
(* The texts parsed.                                                       *)
(***************************************************************************)
SampleLines ==
    { <<"A", "=", Ref("B")>>,
      <<"B", "=", "a">>,
      <<"B", "=", Ref("A"), "b">>,
      <<"A", "=", Ref("A")>>,
      <<"X", "=", "a", Ref("U"), "b">>,
      <<" ", "export", " ", "A", " ", "=", " ", DQ, "a", " ", "b", DQ, " ">>,
      <<"B", "=", SQ, Ref("A"), SQ>>,
      <<"X", "=", DQ>>,
      <<"X", "=", DQ, "a", SQ>>,
      <<"X", "=", SQ, DQ, "a", DQ, SQ>>,
      <<"X", "=", "a", "=", Ref("B")>>,
      <<"B", "=">>,
      <<"PATH", "=", "b">>,
      <<"A", "=", Ref("PATH")>>,
      <<"#", "A", "=", "a">>,
      <<"1A", "=", "a">>,
      <<"A">>,
      <<" ">> }

RECURSIVE SeqsUpTo(_, _)
\* The sequences of at most n elements of S.
SeqsUpTo(S, n) ==
    IF n = 0 THEN { << >> }
    ELSE LET shorter == SeqsUpTo(S, n - 1)
         IN  shorter \cup { Append(q, x) : q \in shorter, x \in S }

\* The chain L0=${L1}, ..., L(n-1)=${Ln}, Ln=<last>.
Chain(n, last) ==
    [i \in 1..(n + 1) |->
        IF i <= n THEN <<ChainName(i - 1), "=", Ref(ChainName(i))>>
        ELSE <<ChainName(n), "=">> \o last]

\* How a chain ends: a plain value, an empty value, an undefined reference,
\* a reference back to the head of the chain.
ChainEnds == { <<"a">>, << >>, <<Ref("U")>>, <<Ref(ChainName(0))>> }

Reverse(s) == [i \in 1..Len(s) |-> s[Len(s) + 1 - i]]

Chains ==
    LET forward == { Chain(n, last) : n \in 0..MaxChain, last \in ChainEnds }
    IN  forward \cup { Reverse(c) : c \in forward }

Texts == SeqsUpTo(SampleLines, MaxLines) \cup Chains

(***************************************************************************)
(* The profile store (profiles.ts) and the loader (loader.ts).             *)
(***************************************************************************)
NoProfiles == [d \in {} |-> ""]

\* getNormalizedPath
getNormalizedPath(dirPath) ==
    IF realpath(dirPath) # ENOENT THEN realpath(dirPath) ELSE pathResolve(dirPath)

\* getActiveProfile: profiles[normalizedPath] || null ("" stands for null).
getActiveProfileIn(ps, dirPath) ==
    IF getNormalizedPath(dirPath) \in DOMAIN ps
    THEN ps[getNormalizedPath(dirPath)]
    ELSE ""

getActiveProfile(dirPath) == getActiveProfileIn(profiles, dirPath)

\* A profile name is given as the sequence of its characters.
FirstChars == { "a", "d", "e", "v", "Z", "_" }

RestChars == FirstChars \cup { "1", "-" }

\* /^[a-zA-Z_][a-zA-Z0-9_-]*$/.test(profile)
matchesProfilePattern(cs) ==
    /\ Len(cs) >= 1
    /\ cs[1] \in FirstChars
    /\ \A i \in 2..Len(cs) : cs[i] \in RestChars

\* The validation as a slip would write it: the cap one character short.
profileNameErrorShort(cs) ==
    IF cs = << >> THEN "ValidationError"
    ELSE IF ~matchesProfilePattern(cs) \/ Len(cs) >= 64 THEN "ValidationError"
    ELSE "none"

\* The two checks that open setActiveProfile: what they raise.
profileNameError(cs) ==
    IF cs = << >> THEN "ValidationError"
    ELSE IF ~matchesProfilePattern(cs) \/ Len(cs) > 64 THEN "ValidationError"
    ELSE "none"

\* profiles[normalizedPath] = profile
setProfile(ps, key, name) ==
    [k \in DOMAIN ps \cup {key} |-> IF k = key THEN name ELSE ps[k]]

\* The delete as a slip would write it: the whole store is emptied.
deleteAllProfiles(ps, key) == NoProfiles

\* delete profiles[normalizedPath]
deleteProfile(ps, key) == [k \in DOMAIN ps \ {key} |-> ps[k]]

ProfOp(op, dir, name, raised) ==
    [op |-> op, dir |-> dir, name |-> name, raised |-> raised]

NoProfOp == ProfOp("none", << >>, << >>, "none")

\* setActiveProfile(dirPath, profile)
setActiveProfile(dirPath, profile) ==
    IF profileNameError(profile) # "none"
    THEN /\ profOp' = ProfOp("setActiveProfile", dirPath, profile, profileNameError(profile))
         /\ UNCHANGED profiles
    ELSE /\ profiles' = setProfile(profiles, getNormalizedPath(dirPath), nameOf(profile))
         /\ profOp' = ProfOp("setActiveProfile", dirPath, profile, "none")

\* clearActiveProfile(dirPath)
clearActiveProfile(dirPath) ==
    /\ profiles' = deleteProfile(profiles, getNormalizedPath(dirPath))
    /\ profOp' = ProfOp("clearActiveProfile", dirPath, << >>, "none")

\* The value that tells the file a variable comes from.
Tag(f) ==
    IF f = <<"h", ".envrc">> THEN "hB"
    ELSE IF f = <<"h", ".envrc.dev">> THEN "hP"
    ELSE IF f = <<"h", "a", ".envrc">> THEN "aB"
    ELSE "aP"

\* A variable that only the one file defines.
Own(f) ==
    IF f = <<"h", ".envrc">> THEN "HB"
    ELSE IF f = <<"h", ".envrc.dev">> THEN "HP"
    ELSE IF f = <<"h", "a", ".envrc">> THEN "AB"
    ELSE "AP"

\* The text of a configuration file: V, a variable of its own, a reference
\* and a dangerous name; or V and a variable that refers to itself.
GoodText(f) ==
    << <<"V", "=", Tag(f)>>,
       <<Own(f), "=", DQ, Ref("V"), "b", DQ>>,
       <<"export", " ", "PATH", "=", Tag(f)>> >>

CyclicText(f) == << <<"V", "=", Tag(f)>>, <<"A", "=", Ref("A")>> >>

\* V and a variable with a very long name.
LongKeyText(f) == << <<"V", "=", Tag(f)>>, <<LongName, "=", Tag(f)>> >>

TextOf(f) ==
    IF textKind[f] = "cyclic" THEN CyclicText(f)
    ELSE IF textKind[f] = "longkey" THEN LongKeyText(f)
    ELSE GoodText(f)

\* fileStats.size of a file of the model.
SizeOf(f) == IF textKind[f] = "oversize" THEN MAX_FILE_SIZE + 1 ELSE Len(TextOf(f))

\* safeReadFile: the text, or a ValidationError for a file over 1 MB.
safeReadFile(filePath) ==
    LET f == realpath(filePath)
    IN  IF SizeOf(f) > MAX_FILE_SIZE
        THEN [raised |-> "ValidationError", text |-> << >>]
        ELSE [raised |-> "none", text |-> TextOf(f)]

\* Object.assign(target, source)
assign(target, source) ==
    [k \in DOMAIN target \cup DOMAIN source |->
        IF k \in DOMAIN source THEN source[k] ELSE target[k]]

\* One try block of loadEnvFromDir: the variables of the file at filePath
\* when it exists, is allowed, can be read and parses; none otherwise
\* (whatever is raised is caught).
loadFile(filePath) ==
    IF ~fileExists(filePath) THEN NoMapping
    ELSE IF isAllowed(filePath).raised # "none" THEN NoMapping
    ELSE IF ~isAllowed(filePath).value THEN NoMapping
    ELSE IF safeReadFile(filePath).raised # "none" THEN NoMapping
    ELSE IF parseEnvFile(safeReadFile(filePath).text).raised # "none" THEN NoMapping
    ELSE parseEnvFile(safeReadFile(filePath).text).vars

\* The second try block as a slip would write it: the profile file is read
\* on the permission of the base file.
loadProfileFileUnderBase(dirPath) ==
    LET profilePath == join(dirPath, ENVRC_FILENAME \o "." \o getActiveProfile(dirPath))
    IN  IF getActiveProfile(dirPath) = "" THEN NoMapping
        ELSE IF ~fileExists(profilePath) THEN NoMapping
        ELSE IF isAllowed(join(dirPath, ENVRC_FILENAME)).raised # "none" THEN NoMapping
        ELSE IF ~isAllowed(join(dirPath, ENVRC_FILENAME)).value THEN NoMapping
        ELSE IF safeReadFile(profilePath).raised # "none" THEN NoMapping
        ELSE IF parseEnvFile(safeReadFile(profilePath).text).raised # "none" THEN NoMapping
        ELSE parseEnvFile(safeReadFile(profilePath).text).vars

\* The second try block: the file of the active profile, if one is set.
loadProfileFile(dirPath) ==
    IF getActiveProfile(dirPath) = "" THEN NoMapping
    ELSE loadFile(join(dirPath, ENVRC_FILENAME \o "." \o getActiveProfile(dirPath)))

\* loadEnvFromDir as a slip would write it: the base file over the profile.
loadEnvFromDirBaseLast(dirPath) ==
    assign(loadProfileFile(dirPath), loadFile(join(dirPath, ENVRC_FILENAME)))

\* loadEnvFromDir: the base file, then the profile file over it.
loadEnvFromDir(dirPath) ==
    assign(loadFile(join(dirPath, ENVRC_FILENAME)), loadProfileFile(dirPath))

\* stat(dir).ino: the inode of a directory, 0 when stat fails.
statIno(dir) ==
    IF dir = << >> THEN 2
    ELSE IF dir = <<"h">> THEN 11
    ELSE IF dir = <<"h", "a">> THEN 12
    ELSE 0

RECURSIVE collectDirs(_, _, _)
\* The while loop of loadEnvRecursive: the chain from currentDir upwards.
collectDirs(currentDir, visitedInodes, dirs) ==
    IF statIno(currentDir) = 0 \/ statIno(currentDir) \in visitedInodes THEN dirs
    ELSE LET pushed == Append(dirs, currentDir)
             parent == dirname(currentDir)
         IN  IF currentDir = HOME_DIR \/ currentDir = << >> THEN pushed
             ELSE IF parent = currentDir THEN pushed
             ELSE collectDirs(IF realpath(parent) # ENOENT THEN realpath(parent) ELSE parent,
                              visitedInodes \cup {statIno(currentDir)}, pushed)

chainOf(startDir) ==
    collectDirs(IF realpath(startDir) # ENOENT THEN realpath(startDir)
                ELSE pathResolve(startDir), {}, << >>)

RECURSIVE mergeInnerFirst(_, _, _)
\* The merge as a slip would run it: from the start directory outwards, so
\* that the outer directories overwrite the nearer ones.
mergeInnerFirst(dirs, i, acc) ==
    IF i > Len(dirs) THEN acc
    ELSE mergeInnerFirst(dirs, i + 1, assign(acc, loadEnvFromDir(dirs[i])))

RECURSIVE mergeFrom(_, _, _)
\* for (let i = dirs.length - 1; i >= 0; i--) Object.assign(vars, dirVars)
mergeFrom(dirs, i, acc) ==
    IF i < 1 THEN acc
    ELSE mergeFrom(dirs, i - 1, assign(acc, loadEnvFromDir(dirs[i])))

mergeChainInnerFirst(dirs) == mergeInnerFirst(dirs, 1, NoMapping)

RECURSIVE mergeUntilFailure(_, _, _)
\* The merge as a slip would run it: a directory that yields nothing ends
\* the walk with nothing.
mergeUntilFailure(dirs, i, acc) ==
    IF i < 1 THEN acc
    ELSE IF loadEnvFromDir(dirs[i]) = NoMapping THEN NoMapping
    ELSE mergeUntilFailure(dirs, i - 1, assign(acc, loadEnvFromDir(dirs[i])))

mergeChainAborting(dirs) == mergeUntilFailure(dirs, Len(dirs), NoMapping)

mergeChain(dirs) == mergeFrom(dirs, Len(dirs), NoMapping)

Env(op, dir, mapping) == [op |-> op, dir |-> dir, raised |-> "none", vars |-> mapping]

NoEnv == Env("none", << >>, NoMapping)

\* The directories a load starts from.
LoadDirs == { <<"h", "a">>, <<"h", "l">>, <<"h">>, << >> }

\* loadEnvRecursive(startDir)
loadEnvRecursive(startDir) ==
    /\ env.op = "none"
    /\ env' = Env("loadEnvRecursive", startDir, mergeChain(chainOf(startDir)))
    /\ UNCHANGED <<storeVars, parseVars, textKind, profiles, profOp, auxVars>>

\* loadEnvFromDirDown as a slip would write it: with the walk of
\* loadEnvRecursive.
loadEnvFromDirDownWalking(startDir) ==
    /\ env.op = "none"
    /\ env' = Env("loadEnvFromDirDown", startDir, mergeChain(chainOf(startDir)))
    /\ UNCHANGED <<storeVars, parseVars, textKind, profiles, profOp, auxVars>>

\* loadEnvFromDirDown(startDir): the two try blocks on the one directory.
loadEnvFromDirDown(startDir) ==
    /\ env.op = "none"
    /\ env' = Env("loadEnvFromDirDown", startDir, loadEnvFromDir(startDir))
    /\ UNCHANGED <<storeVars, parseVars, textKind, profiles, profOp, auxVars>>

(***************************************************************************)
(* The reload command (commands/reload.ts) and validateVariableName        *)
(* (validation.ts).                                                        *)
(***************************************************************************)
\* validateVariableName: what it raises ("none" when it returns).
validateVariableName(name) ==
    IF name = "" THEN "ValidationError"
    ELSE IF Len(name) > MAX_VARIABLE_NAME_LENGTH THEN "ValidationError"
    ELSE IF name \notin NameTokens THEN "ValidationError"
    ELSE "none"

\* The keys of b that a does not hold, appended to a: the order of the keys
\* of Object.assign(a, b).
appendNew(a, b) ==
    a \o SelectSeq(b, LAMBDA k : \A i \in 1..Len(a) : a[i] # k)

\* The keys of what a file gives, in the order of its lines.
keysOfFile(filePath) ==
    IF loadFile(filePath) = NoMapping THEN << >>
    ELSE collect(safeReadFile(filePath).text, NoVars).order

keysOfProfileFile(dirPath) ==
    IF getActiveProfile(dirPath) = "" THEN << >>
    ELSE keysOfFile(join(dirPath, ENVRC_FILENAME \o "." \o getActiveProfile(dirPath)))

keysOfDir(dirPath) ==
    appendNew(keysOfFile(join(dirPath, ENVRC_FILENAME)), keysOfProfileFile(dirPath))

RECURSIVE keysFrom(_, _, _)
\* Object.keys of what the merge loop of loadEnvRecursive builds.
keysFrom(dirs, i, acc) ==
    IF i < 1 THEN acc
    ELSE keysFrom(dirs, i - 1, appendNew(acc, keysOfDir(dirs[i])))

keysOfChain(dirs) == keysFrom(dirs, Len(dirs), << >>)

RECURSIVE printExports(_, _)
\* The loop of handleReload: validate the key, print the line; the first key
\* that fails the validation ends the loop with its error.
printExports(keys, printed) ==
    IF keys = << >> THEN [raised |-> "none", printed |-> printed]
    ELSE IF validateVariableName(Head(keys)) # "none"
    THEN [raised |-> validateVariableName(Head(keys)), printed |-> printed]
    ELSE printExports(Tail(keys), Append(printed, Head(keys)))

Reloaded(dir, mapping, result) ==
    [op |-> "handleReload", dir |-> dir, raised |-> result.raised,
     vars |-> mapping, printed |-> result.printed]

\* handleReload with the working directory cwd.
handleReload(cwd) ==
    /\ env.op = "none"
    /\ env' = Reloaded(cwd, mergeChain(chainOf(cwd)),
                       printExports(keysOfChain(chainOf(cwd)), << >>))
    /\ UNCHANGED <<storeVars, parseVars, textKind, profiles, profOp, auxVars>>


(***************************************************************************)
(* The path validator of the command entry points (validation.ts).         *)
(***************************************************************************)
SAFE_BASE_PATHS == { HOME_DIR, <<"opt">>, <<"tmp">> }

\* The segments that begin "/test", "/tmp" or "/." in the path string.
DevSegs == { "test", "tests", "tmp", ".envrc", ".envrc.dev", ".config" }

\* resolvedPath.includes("/test") || includes("/.") || includes("/tmp")
isDev(p) == \E i \in 1..Len(p) : p[i] \in DevSegs

\* resolvedPath === basePath || resolvedPath.startsWith(basePath + "/")
withinBase(p, basePath) ==
    Len(basePath) <= Len(p) /\ SubSeq(p, 1, Len(basePath)) = basePath

\* The three attempts at resolution: the path, its directory and its basename,
\* and path.resolve.
resolvePath(filePath) ==
    IF realpath(filePath) # ENOENT THEN realpath(filePath)
    ELSE IF realpath(dirname(filePath)) # ENOENT
    THEN realpath(dirname(filePath)) \o <<Last(filePath)>>
    ELSE pathResolve(filePath)

Checked(op, p, bases, raised, value) ==
    [op |-> op, path |-> p, bases |-> bases, raised |-> raised, value |-> value]

NoCheck == Checked("none", << >>, {}, "none", << >>)

\* validateAndResolvePath(filePath, allowedBasePaths): the resolved path, or
\* the error raised.
validateAndResolvePath(filePath, allowedBasePaths) ==
    IF filePath = EmptyPath THEN [raised |-> "ValidationError", value |-> << >>]
    ELSE IF hasTraversal(filePath) THEN [raised |-> "SecurityError", value |-> << >>]
    ELSE LET resolvedPath == resolvePath(filePath)
         IN  IF isDev(resolvedPath) THEN [raised |-> "none", value |-> resolvedPath]
             ELSE IF \E basePath \in allowedBasePaths : withinBase(resolvedPath, basePath)
             THEN [raised |-> "none", value |-> resolvedPath]
             ELSE [raised |-> "SecurityError", value |-> << >>]

\* A command validates a path.
validatePath(filePath, allowedBasePaths) ==
    /\ checked.op = "none"
    /\ checked' = Checked("validateAndResolvePath", filePath, allowedBasePaths,
                          validateAndResolvePath(filePath, allowedBasePaths).raised,
                          validateAndResolvePath(filePath, allowedBasePaths).value)
    /\ UNCHANGED <<storeVars, parseVars, loadVars, walked, inv, update>>

(***************************************************************************)
(* The upward walk of loadEnvRecursive on a filesystem layout.             *)
(*                                                                         *)
(* A layout is its directories, its symbolic links (link path -> target    *)
(* path), the device and inode number stat gives for each directory, the   *)
(* directories stat fails on, the paths realpath fails on although they    *)
(* resolve, and the value of HOME.                                         *)
(***************************************************************************)
MaxLinks == 4

ELOOP == <<"ELOOP">>

EACCES == <<"EACCES">>

Errno == { ENOENT, ELOOP, EACCES }

RECURSIVE resolveOn(_, _, _, _)
\* The directory a path leads to: the segments of `rest` followed from the
\* directory `cur`, a symbolic link replaced by its target; ELOOP after more
\* than MaxLinks links, ENOENT where nothing is.
resolveOn(L, cur, rest, links) ==
    IF rest = << >> THEN cur
    ELSE LET cand == cur \o <<Head(rest)>>
         IN  IF cand \in DOMAIN L.links
             THEN IF links = 0 THEN ELOOP
                  ELSE resolveOn(L, << >>, L.links[cand] \o Tail(rest), links - 1)
             ELSE IF cand \in L.dirs THEN resolveOn(L, cand, Tail(rest), links)
             ELSE ENOENT

\* realpath(p) on the layout.
realpathOn(L, p) ==
    IF p \in L.opaque THEN EACCES ELSE resolveOn(L, << >>, p, MaxLinks)

\* What stat gives for a path it fails on.
NoStat == [ok |-> FALSE, dev |-> 0, ino |-> 0]

\* stat(p) on the layout: the device and the inode number of the directory
\* the path leads to.
statOn(L, p) ==
    LET d == resolveOn(L, << >>, p, MaxLinks)
    IN  IF d \in Errno \/ d \in L.locked THEN NoStat
        ELSE [ok |-> TRUE, dev |-> L.id[d].dev, ino |-> L.id[d].ino]

\* The test as a slip would leave it: no directory counts as visited.
hasVisitedNever(visitedInodes, st) == FALSE

\* visitedInodes.has(st.ino)
hasVisited(visitedInodes, st) == st.ino \in visitedInodes

Walked(L, startDir, pc, currentDir, visitedInodes, dirs, why) ==
    [layout |-> L, startDir |-> startDir, pc |-> pc, currentDir |-> currentDir,
     visitedInodes |-> visitedInodes, dirs |-> dirs, why |-> why]

NoLayout ==
    [dirs |-> {}, links |-> << >>, id |-> << >>, locked |-> {}, opaque |-> {},
     home |-> << >>]

NoWalk == Walked(NoLayout, << >>, "none", << >>, {}, << >>, "none")

\* currentDir = realpath(startDir), or path.resolve(startDir) when it fails.
walkStart ==
    /\ walked.pc = "start"
    /\ walked' = [walked EXCEPT
                     !.pc = "loop",
                     !.currentDir =
                         IF realpathOn(walked.layout, walked.startDir) \notin Errno
                         THEN realpathOn(walked.layout, walked.startDir)
                         ELSE pathResolve(walked.startDir)]
    /\ UNCHANGED <<storeVars, parseVars, loadVars, checked, inv, update>>

\* One turn of the while (true) loop; `why` records the break taken.
walkStep ==
    LET L == walked.layout
        currentDir == walked.currentDir
        st == statOn(L, currentDir)
        pushed == Append(walked.dirs, currentDir)
        parent == dirname(currentDir)
        broke(dirs, why) == [walked EXCEPT !.pc = "done", !.dirs = dirs, !.why = why]
    IN  /\ walked.pc = "loop"
        /\ walked' =
              IF ~st.ok THEN broke(walked.dirs, "stat")
              ELSE IF hasVisited(walked.visitedInodes, st) THEN broke(walked.dirs, "visited")
              ELSE IF currentDir = L.home THEN broke(pushed, "home")
              ELSE IF currentDir = << >> THEN broke(pushed, "root")
              ELSE IF parent = currentDir THEN broke(pushed, "top")
              ELSE [walked EXCEPT
                       !.dirs = pushed,
                       !.visitedInodes = walked.visitedInodes \cup {st.ino},
                       !.currentDir = IF realpathOn(L, parent) \notin Errno
                                      THEN realpathOn(L, parent)
                                      ELSE parent]
        /\ UNCHANGED <<storeVars, parseVars, loadVars, checked, inv, update>>

(***************************************************************************)
(* Invocations of the tool side by side on one permissions file.  An       *)
(* invocation reads the whole file, changes its copy in memory and         *)
(* rewrites the whole file; other invocations run between the read and     *)
(* the rewrite.                                                            *)
(***************************************************************************)
MaxInvocations == 2

Invocations == 1..MaxInvocations

Invocation(pc, op, key, copy, raised) ==
    [pc |-> pc, op |-> op, key |-> key, perms |-> copy, raised |-> raised]

NoInv == [i \in {} |-> Invocation("idle", "none", << >>, NoPerms, "none")]

\* An allow of the same key that has read the file and not yet rewritten it.
grantInFlight(key) ==
    \E j \in DOMAIN inv :
        inv[j].pc = "loaded" /\ inv[j].op = "allow" /\ inv[j].key = key

\* allow / deny up to the end of loadPermissions, the entry set in the copy.
readAndSet(i, op, p, entry) ==
    LET unsafe == validatePathSafety(p)
        absPath == normalizePath(p)
        loaded == loadPermissions
    IN  /\ inv[i].pc = "idle"
        /\ now < MaxTime
        /\ now' = now + 1
        /\ inv' = [inv EXCEPT ![i] =
                     IF unsafe # "none" THEN Invocation("done", op, absPath, NoPerms, unsafe)
                     ELSE IF loaded.raised # "none"
                     THEN Invocation("done", op, absPath, NoPerms, loaded.raised)
                     ELSE Invocation("loaded", op, absPath,
                                     setEntry(loaded.perms, absPath, entry), "none")]
        /\ lastOp' = IF op = "allow" /\ absPath \in StoreKeys
                     THEN [lastOp EXCEPT ![absPath] = "grant"]
                     ELSE lastOp
        /\ UNCHANGED <<exists, storeKind, perms, others, ret>>

allowRead(i, p) == readAndSet(i, "allow", p, allowEntry(now + 1))

denyRead(i, p) == readAndSet(i, "deny", p, denyEntry(now + 1))

\* prune up to the end of its loop: the stale entries deleted from the copy.
pruneRead(i) ==
    LET loaded == loadPermissions
    IN  /\ inv[i].pc = "idle"
        /\ inv' = [inv EXCEPT ![i] =
                     IF loaded.raised # "none"
                     THEN Invocation("done", "prune", << >>, NoPerms, loaded.raised)
                     ELSE IF pruned(loaded.perms) = loaded.perms
                     THEN Invocation("done", "prune", << >>, loaded.perms, "none")
                     ELSE Invocation("loaded", "prune", << >>, pruned(loaded.perms), "none")]
        /\ UNCHANGED <<exists, storeKind, perms, others, now, ret, lastOp>>

\* savePermissions(perms): the file is replaced by the copy of the invocation.
save(i) ==
    /\ inv[i].pc = "loaded"
    /\ storeKind' = "json"
    /\ perms' = inv[i].perms
    /\ inv' = [inv EXCEPT ![i].pc = "done"]
    /\ ret' = Ret(inv[i].op, inv[i].key, "none", 0, TRUE)
    /\ lastOp' = IF inv[i].op = "deny" /\ inv[i].key \in StoreKeys
                    /\ ~grantInFlight(inv[i].key)
                 THEN [lastOp EXCEPT ![inv[i].key] = "revoke"]
                 ELSE lastOp
    /\ UNCHANGED <<exists, others, now>>

(***************************************************************************)
(* The self-update command (commands/update.ts).                           *)
(***************************************************************************)
CHECKSUMS_FILE_NAME == "checksums.txt"

\* getBinaryName() on the platform of the run.
BinaryName == "varset-linux-x64"

\* crypto.createHash("sha256").update(content).digest("hex")
sha256(fileContent) == "sha256:" \o fileContent

NoChecksums == [f \in {} |-> ""]

RECURSIVE parseChecksums(_, _)
\* The loop of fetchChecksums over the lines of checksums.txt; a line is its
\* fields, split at white space: the first is the hash, the second the file
\* name, and a later line for a name replaces an earlier one.
parseChecksums(lines, checksums) ==
    IF lines = << >> THEN checksums
    ELSE LET fields == Head(lines)
         IN  parseChecksums(Tail(lines),
                IF Len(fields) >= 2
                THEN [f \in DOMAIN checksums \cup {fields[2]} |->
                         IF f = fields[2] THEN fields[1] ELSE checksums[f]]
                ELSE checksums)

\* The comparison as a slip would leave it: every binary passes.
verifyBinaryChecksumAlways(fileContent, expectedHash) == TRUE

\* verifyBinaryChecksum: the hash of the file at binaryPath is expectedHash.
verifyBinaryChecksum(fileContent, expectedHash) == sha256(fileContent) = expectedHash

Update(pc, skipVerify, assets, checksumText, served, tempBinary, checksums, installed, raised) ==
    [pc |-> pc, skipVerify |-> skipVerify, assets |-> assets,
     checksumText |-> checksumText, served |-> served, tempBinary |-> tempBinary,
     checksums |-> checksums, installed |-> installed, raised |-> raised]

NoUpdate == Update("none", FALSE, {}, << >>, "", "", NoChecksums, "old", "none")

endUpdate(raised) == [update EXCEPT !.pc = "done", !.raised = raised]

\* handleUpdate up to the download: the rate limit, the comparison of the
\* versions, the prompt and the search for the asset of the platform.
checkForUpdate(limited, comparison, proceed) ==
    /\ update.pc = "start"
    /\ update' = IF limited THEN endUpdate("ValidationError")
                 ELSE IF comparison >= 0 THEN endUpdate("none")
                 ELSE IF ~proceed THEN endUpdate("none")
                 ELSE IF BinaryName \notin update.assets THEN endUpdate("ValidationError")
                 ELSE [update EXCEPT !.pc = "download"]
    /\ UNCHANGED <<storeVars, parseVars, loadVars, checked, walked, inv>>

\* downloadBinary: the response is written to the temporary file.
downloadBinary(fetched) ==
    /\ update.pc = "download"
    /\ update' = IF ~fetched THEN endUpdate("Error")
                 ELSE [update EXCEPT !.tempBinary = update.served,
                                     !.pc = IF update.skipVerify THEN "install"
                                            ELSE "checksums"]
    /\ UNCHANGED <<storeVars, parseVars, loadVars, checked, walked, inv>>

\* fetchChecksums: the asset is looked up, fetched and parsed.
fetchChecksums(fetched) ==
    /\ update.pc = "checksums"
    /\ update' = IF CHECKSUMS_FILE_NAME \notin update.assets THEN endUpdate("Error")
                 ELSE IF ~fetched THEN endUpdate("Error")
                 ELSE [update EXCEPT
                          !.checksums = parseChecksums(update.checksumText, NoChecksums),
                          !.pc = "verify"]
    /\ UNCHANGED <<storeVars, parseVars, loadVars, checked, walked, inv>>

\* The lookup of the expected hash and the verification of the temporary file.
verifyDownload ==
    /\ update.pc = "verify"
    /\ update' = IF BinaryName \notin DOMAIN update.checksums
                 THEN endUpdate("ValidationError")
                 ELSE IF ~verifyBinaryChecksum(update.tempBinary,
                                               update.checksums[BinaryName])
                 THEN endUpdate("ValidationError")
                 ELSE [update EXCEPT !.pc = "install"]
    /\ UNCHANGED <<storeVars, parseVars, loadVars, checked, walked, inv>>

\* chmod, the backup, the copy over the install path and the version check of
\* the installed binary.
installBinary(chmodOk, copied, versionOk) ==
    /\ update.pc = "install"
    /\ update' = IF ~chmodOk THEN endUpdate("ValidationError")
                 ELSE IF ~copied THEN endUpdate("ValidationError")
                 ELSE [update EXCEPT !.installed = update.tempBinary,
                                     !.pc = "done",
                                     !.raised = IF versionOk THEN "none"
                                                ELSE "ValidationError"]
    /\ UNCHANGED <<storeVars, parseVars, loadVars, checked, walked, inv>>

\* Every variable of the later sections at rest.
Idle ==
    /\ checked = NoCheck
    /\ walked = NoWalk
    /\ inv = NoInv
    /\ update = NoUpdate
(***************************************************************************)
(* Specifications.                                                         *)
(***************************************************************************)
\* A fresh installation: no permissions file; any of the files on disk.
Init ==
    /\ exists \in SUBSET StoreFiles
    /\ storeKind = "missing"
    /\ perms = NoPerms
    /\ others = 0
    /\ now = 0
    /\ ret = Ret("init", << >>, "none", 0, FALSE)
    /\ lastOp = [k \in StoreKeys |-> "none"]
    /\ content = << >>
    /\ parsed = NotParsed
    /\ textKind = [f \in PhysFiles |-> "good"]
    /\ profiles = NoProfiles
    /\ env = NoEnv
    /\ profOp = NoProfOp
    /\ Idle

Next ==
    /\ UNCHANGED <<parseVars, loadVars, auxVars>>
    /\ \/ \E p \in StorePaths : allow(p)
       \/ \E p \in StorePaths : deny(p)
       \/ prune
       \/ \E f \in StoreFiles : unlink(f)
       \/ \E f \in StoreFiles : create(f)

\* The permission store under grants, revokes, prunes and changes of the disk.
Spec == Init /\ [][Next]_vars

\* parseEnvFile applied to the text.
parseText ==
    /\ ~parsed.done
    /\ parsed' = parseEnvFile(content)
    /\ UNCHANGED <<content, storeVars, loadVars, auxVars>>

InitParse ==
    /\ content \in Texts
    /\ parsed = NotParsed
    /\ exists = {}
    /\ storeKind = "missing"
    /\ perms = NoPerms
    /\ others = 0
    /\ now = 0
    /\ ret = Ret("init", << >>, "none", 0, FALSE)
    /\ lastOp = [k \in StoreKeys |-> "none"]
    /\ textKind = [f \in PhysFiles |-> "good"]
    /\ profiles = NoProfiles
    /\ env = NoEnv
    /\ profOp = NoProfOp
    /\ Idle

NextParse == parseText

\* The parser applied to every text of Texts.
SpecParse == InitParse /\ [][NextParse]_vars

\* What may be wrong with the disk: nothing, or one configuration file that
\* is absent, cyclic or too large.
Breakages ==
    { <<"none", << >> >> }
        \cup { <<kind, f>> : kind \in {"absent", "cyclic", "oversize"}, f \in PhysFiles }

\* The permission stores over the configuration files.
Stores ==
    UNION { [S -> { allowEntry(1), denyEntry(1) }] : S \in SUBSET PhysFiles }

\* The profile stores: dev active or not, per directory.
ProfileStores ==
    UNION { [S -> {"dev"}] : S \in SUBSET { <<"h">>, <<"h", "a">> } }

\* A disk, a permission store and a profile store, ready for one load.
InitLoad ==
    /\ \E b \in Breakages :
          /\ exists = PhysFiles \ (IF b[1] = "absent" THEN {b[2]} ELSE {})
          /\ textKind = [f \in PhysFiles |->
                            IF b[1] \in {"cyclic", "oversize"} /\ f = b[2]
                            THEN b[1] ELSE "good"]
    /\ perms \in Stores
    /\ storeKind = IF perms = NoPerms THEN "missing" ELSE "json"
    /\ others = 0
    /\ profiles \in ProfileStores
    /\ now = 1
    /\ ret = Ret("init", << >>, "none", 0, FALSE)
    /\ lastOp = [k \in StoreKeys |-> "unknown"]
    /\ content = << >>
    /\ parsed = NotParsed
    /\ env = NoEnv
    /\ profOp = NoProfOp
    /\ Idle

NextLoad ==
    \/ \E d \in LoadDirs : loadEnvRecursive(d)
    \/ \E d \in LoadDirs : loadEnvFromDirDown(d)

\* The loader applied to every disk and store of InitLoad.
SpecLoad == InitLoad /\ [][NextLoad]_vars

\* The paths given to the store operations when the permissions file may be
\* in any condition: a file, and two paths whose string holds "..".
SafetyPaths ==
    { <<"h", ".envrc">>, <<"h", "a", "..", ".envrc">>, <<"h", "x..y">> }

\* The entries of the permissions file for paths outside the model: none, or
\* as many as bring the file to the cap or one entry off it.
OtherCounts ==
    { 0, MAX_PERMISSIONS_ENTRIES - 1, MAX_PERMISSIONS_ENTRIES,
      MAX_PERMISSIONS_ENTRIES + 1 }

\* A permissions file in any condition: missing, corrupt, over 1 MB, or JSON
\* with entries near the cap.
InitStore ==
    /\ exists \in SUBSET { <<"h", ".envrc">> }
    /\ storeKind \in {"missing", "corrupt", "oversize", "json"}
    /\ IF storeKind = "json"
       THEN /\ perms \in UNION { [S -> { allowEntry(0), denyEntry(0) }] :
                                   S \in SUBSET { <<"h", ".envrc">> } }
            /\ others \in OtherCounts
       ELSE perms = NoPerms /\ others = 0
    /\ now = 0
    /\ ret = Ret("init", << >>, "none", 0, FALSE)
    /\ lastOp = [k \in StoreKeys |-> "unknown"]
    /\ content = << >>
    /\ parsed = NotParsed
    /\ textKind = [f \in PhysFiles |-> "good"]
    /\ profiles = NoProfiles
    /\ env = NoEnv
    /\ profOp = NoProfOp
    /\ Idle

NextStore ==
    /\ UNCHANGED <<parseVars, loadVars, auxVars>>
    /\ \/ \E p \in SafetyPaths : allow(p)
       \/ \E p \in SafetyPaths : deny(p)
       \/ prune

\* Grants, revokes and prunes on a permissions file in any condition.
SpecStore == InitStore /\ [][NextStore]_vars

\* The names given to setActiveProfile: valid ones, the empty one, ones off
\* the pattern, and ones of 64 and of 65 characters.
ProfileNames ==
    { <<"d", "e", "v">>, <<"_", "a", "-", "1">>, << >>, <<"-", "d">>,
      <<"1", "a">>, <<"d", " ">>, <<".", ".", "/", "a">>,
      Rep("Z", 64), Rep("Z", 65), Rep("-", 64) }

\* The directories given to the profile store: home, a directory in it, a
\* symbolic link to that directory, and a directory that does not exist.
ProfileDirs == { <<"h">>, <<"h", "a">>, <<"h", "l">>, <<"h", "n">> }

\* No profile assigned; the disk as it is.
InitProfiles ==
    /\ profiles = NoProfiles
    /\ profOp = NoProfOp
    /\ Idle
    /\ exists = PhysFiles
    /\ storeKind = "missing"
    /\ perms = NoPerms
    /\ others = 0
    /\ now = 0
    /\ ret = Ret("init", << >>, "none", 0, FALSE)
    /\ lastOp = [k \in StoreKeys |-> "none"]
    /\ content = << >>
    /\ parsed = NotParsed
    /\ textKind = [f \in PhysFiles |-> "good"]
    /\ env = NoEnv

NextProfiles ==
    /\ UNCHANGED <<storeVars, parseVars, textKind, env, auxVars>>
    /\ \/ \E d \in ProfileDirs, n \in ProfileNames : setActiveProfile(d, n)
       \/ \E d \in ProfileDirs : clearActiveProfile(d)

\* The profile store under setActiveProfile and clearActiveProfile.
SpecProfiles == InitProfiles /\ [][NextProfiles]_vars

\* Lines that define or refer to the names of built-in object members.
BuiltinLines ==
    { <<"hasOwnProperty", "=", "a">>,
      <<"constructor", "=", "a">>,
      <<"__proto__", "=", "a">>,
      <<"X", "=", Ref("hasOwnProperty")>>,
      <<"X", "=", Ref("constructor"), Ref("__proto__")>>,
      <<"X", "=", Ref("U")>>,
      <<"B", "=", "b">>,
      <<"A", "=", Ref("B")>>,
      <<"A", "=", Ref("A")>> }

InitNames ==
    /\ content \in SeqsUpTo(BuiltinLines, MaxLines)
    /\ parsed = NotParsed
    /\ exists = {}
    /\ storeKind = "missing"
    /\ perms = NoPerms
    /\ others = 0
    /\ now = 0
    /\ ret = Ret("init", << >>, "none", 0, FALSE)
    /\ lastOp = [k \in StoreKeys |-> "none"]
    /\ textKind = [f \in PhysFiles |-> "good"]
    /\ profiles = NoProfiles
    /\ env = NoEnv
    /\ profOp = NoProfOp
    /\ Idle

\* The parser applied to texts that use the names of built-in members.
SpecNames == InitNames /\ [][NextParse]_vars

\* The working directories of a reload.
ReloadDirs == { <<"h", "a">>, <<"h", "l">>, <<"h">> }

\* Every file on disk; one base file may define a variable with a very long
\* name.
InitReload ==
    /\ exists = PhysFiles
    /\ \E long \in SUBSET { <<"h", ".envrc">>, <<"h", "a", ".envrc">> } :
          /\ Cardinality(long) <= 1
          /\ textKind = [f \in PhysFiles |-> IF f \in long THEN "longkey" ELSE "good"]
    /\ perms \in Stores
    /\ storeKind = IF perms = NoPerms THEN "missing" ELSE "json"
    /\ others = 0
    /\ profiles \in ProfileStores
    /\ now = 1
    /\ ret = Ret("init", << >>, "none", 0, FALSE)
    /\ lastOp = [k \in StoreKeys |-> "unknown"]
    /\ content = << >>
    /\ parsed = NotParsed
    /\ env = NoEnv
    /\ profOp = NoProfOp
    /\ Idle

NextReload == \E cwd \in ReloadDirs : handleReload(cwd)

\* The reload command over every store and profile choice.
SpecReload == InitReload /\ [][NextReload]_vars


(***************************************************************************)
(* The path validator on paths inside and outside the trusted directories. *)
(***************************************************************************)
ValidatePaths ==
    { << >>, <<"e">>, <<"e", "x">>, <<"e", "test">>, <<"e", ".envrc">>,
      <<"hx", "f">>, <<"opt", "x">>, <<"tmp", "x">>,
      <<"h">>, <<"h", "a">>, <<"h", "l">>, <<"h", "n">>,
      <<"h", ".envrc">>, <<"h", "l", ".envrc">>,
      <<"h", "a", "..", ".envrc">>, <<"e", "x..y">>, EmptyPath }

TrustedBases == { SAFE_BASE_PATHS, { <<"h", "a">> }, { << >> }, {} }

InitValidate ==
    /\ exists \in SUBSET PhysFiles
    /\ storeKind = "missing"
    /\ perms = NoPerms
    /\ others = 0
    /\ now = 0
    /\ ret = Ret("init", << >>, "none", 0, FALSE)
    /\ lastOp = [k \in StoreKeys |-> "none"]
    /\ content = << >>
    /\ parsed = NotParsed
    /\ textKind = [f \in PhysFiles |-> "good"]
    /\ profiles = NoProfiles
    /\ env = NoEnv
    /\ profOp = NoProfOp
    /\ Idle

NextValidate ==
    \E filePath \in ValidatePaths, allowedBasePaths \in TrustedBases :
        validatePath(filePath, allowedBasePaths)

\* One call of validateAndResolvePath on every disk.
SpecValidate == InitValidate /\ [][NextValidate]_vars

(***************************************************************************)
(* The upward walk on every layout, from every start directory.            *)
(***************************************************************************)
WalkDirs == { << >>, <<"h">>, <<"h", "a">>, <<"m">>, <<"m", "x">> }

\* One device; every directory its own inode number.
OneDevice ==
    (<< >> :> [dev |-> 1, ino |-> 2]) @@ (<<"h">> :> [dev |-> 1, ino |-> 11])
    @@ (<<"h", "a">> :> [dev |-> 1, ino |-> 12])
    @@ (<<"m">> :> [dev |-> 1, ino |-> 21]) @@ (<<"m", "x">> :> [dev |-> 1, ino |-> 22])

\* /m is the root directory of a second filesystem: it has the inode number
\* of / on its own device.
TwoDevices ==
    (<< >> :> [dev |-> 1, ino |-> 2]) @@ (<<"h">> :> [dev |-> 1, ino |-> 11])
    @@ (<<"h", "a">> :> [dev |-> 1, ino |-> 12])
    @@ (<<"m">> :> [dev |-> 2, ino |-> 2]) @@ (<<"m", "x">> :> [dev |-> 2, ino |-> 3])

NoLinks == [p \in {} |-> << >>]

\* /h/p and /h/q point at each other; /h/a/up points at its grandparent.
LoopLinks ==
    (<<"h", "p">> :> <<"h", "q">>) @@ (<<"h", "q">> :> <<"h", "p">>)
    @@ (<<"h", "a", "up">> :> <<"h">>)

\* HOME is /hl, a symbolic link to /h.
HomeLink == (<<"hl">> :> <<"h">>)

Layout(links, id, locked, opaque, home) ==
    [dirs |-> WalkDirs, links |-> links, id |-> id, locked |-> locked,
     opaque |-> opaque, home |-> home]

Layouts ==
    { Layout(NoLinks, OneDevice, {}, {}, <<"h">>),
      Layout(LoopLinks, OneDevice, {}, {}, <<"h">>),
      Layout(LoopLinks, OneDevice, {}, { <<"h", "a", "up">> }, <<"h">>),
      Layout(NoLinks, OneDevice, { <<"h">> }, {}, <<"h">>),
      Layout(NoLinks, OneDevice, {}, { <<"h">> }, <<"h">>),
      Layout(NoLinks, TwoDevices, {}, {}, <<"h">>),
      Layout(HomeLink, OneDevice, {}, {}, <<"hl">>) }

StartDirs ==
    { << >>, <<"h">>, <<"h", "a">>, <<"m">>, <<"m", "x">>, <<"h", "n">>,
      <<"h", "p">>, <<"h", "p", "x">>, <<"h", "a", "up">>, <<"h", "a", "up", "a">>,
      <<"hl">>, <<"hl", "a">> }

\* The state every specification starts the store, the parser and the loader
\* in when it is about none of them.
Fresh ==
    /\ exists = {}
    /\ storeKind = "missing"
    /\ perms = NoPerms
    /\ others = 0
    /\ now = 0
    /\ ret = Ret("init", << >>, "none", 0, FALSE)
    /\ lastOp = [k \in StoreKeys |-> "none"]
    /\ content = << >>
    /\ parsed = NotParsed
    /\ textKind = [f \in PhysFiles |-> "good"]
    /\ profiles = NoProfiles
    /\ env = NoEnv
    /\ profOp = NoProfOp

InitWalk ==
    /\ Fresh
    /\ checked = NoCheck
    /\ walked \in { Walked(L, startDir, "start", << >>, {}, << >>, "none") :
                       L \in Layouts, startDir \in StartDirs }
    /\ inv = NoInv
    /\ update = NoUpdate

NextWalk == walkStart \/ walkStep

\* The walk, a step at a time.
SpecWalk == InitWalk /\ [][NextWalk]_vars

\* The walk is a loop of one process that nothing suspends: a step that can
\* be taken is taken.
SpecWalkFair == SpecWalk /\ WF_vars(NextWalk)

(***************************************************************************)
(* Two invocations on a store that holds a grant for each file.            *)
(***************************************************************************)
GrantedStore == [k \in StoreFiles |-> allowEntry(0)]

InitRace ==
    /\ exists \in { StoreFiles, { <<"h", ".envrc">> } }
    /\ storeKind = "json"
    /\ perms \in { NoPerms, GrantedStore }
    /\ others = 0
    /\ now = 0
    /\ ret = Ret("init", << >>, "none", 0, FALSE)
    /\ lastOp = [k \in StoreKeys |-> "none"]
    /\ content = << >>
    /\ parsed = NotParsed
    /\ textKind = [f \in PhysFiles |-> "good"]
    /\ profiles = NoProfiles
    /\ env = NoEnv
    /\ profOp = NoProfOp
    /\ checked = NoCheck
    /\ walked = NoWalk
    /\ inv = [i \in Invocations |-> Invocation("idle", "none", << >>, NoPerms, "none")]
    /\ update = NoUpdate

NextRace ==
    /\ \E i \in Invocations :
          \/ \E p \in StoreFiles : allowRead(i, p)
          \/ \E p \in StoreFiles : denyRead(i, p)
          \/ pruneRead(i)
          \/ save(i)
    /\ UNCHANGED <<parseVars, loadVars, checked, walked, update>>

\* The invocations interleaved at the read and at the rewrite of the file.
SpecRace == InitRace /\ [][NextRace]_vars

(***************************************************************************)
(* handleUpdate on every release: the binary served genuine or not, the    *)
(* checksums asset present or not, its lines right, wrong or lacking.      *)
(***************************************************************************)
Binaries == { "genuine", "tampered" }

ChecksumLines ==
    { <<sha256("genuine"), BinaryName>>,
      <<sha256("tampered"), BinaryName>>,
      <<sha256("genuine"), "varset-macos-arm64">>,
      <<sha256("genuine")>>,
      << >> }

ChecksumTexts == SeqsUpTo(ChecksumLines, MaxLines)

AssetSets ==
    { { BinaryName, CHECKSUMS_FILE_NAME }, { BinaryName }, { CHECKSUMS_FILE_NAME } }

InitUpdate ==
    /\ Fresh
    /\ checked = NoCheck
    /\ walked = NoWalk
    /\ inv = NoInv
    /\ update \in { Update("start", skipVerify, assets, checksumText, served, "",
                           NoChecksums, "old", "none") :
                       skipVerify \in BOOLEAN, assets \in AssetSets,
                       checksumText \in ChecksumTexts, served \in Binaries }

NextUpdate ==
    \/ \E limited \in BOOLEAN, comparison \in {-1, 0, 1}, proceed \in BOOLEAN :
          checkForUpdate(limited, comparison, proceed)
    \/ \E fetched \in BOOLEAN : downloadBinary(fetched)
    \/ \E fetched \in BOOLEAN : fetchChecksums(fetched)
    \/ verifyDownload
    \/ \E chmodOk \in BOOLEAN, copied \in BOOLEAN, versionOk \in BOOLEAN :
          installBinary(chmodOk, copied, versionOk)

\* One run of handleUpdate, a step at a time.
SpecUpdate == InitUpdate /\ [][NextUpdate]_vars
(***************************************************************************)
(* Claims on the permission store.                                         *)
(***************************************************************************)
\* C1: for grants and revokes of safe paths with the filesystem unchanged in
\* between, isAllowed(p) returns true exactly when the most recent grant or
\* revoke on p's file was a grant, and false for a file never granted or
\* revoked (default deny).
C1_LastGrantOrRevokeDecides ==
    \A p \in StorePaths :
        (validatePathSafety(p) = "none" /\ lastOp[FileOf(p)] # "unknown")
            => /\ isAllowed(p).raised = "none"
               /\ isAllowed(p).value <=> (lastOp[FileOf(p)] = "grant")

\* A grant of one file, and a grant then a revoke of another.
C1_Witness ==
    /\ ret.op = "deny" /\ ret.raised = "none"
    /\ FileOf(ret.path) \in DOMAIN perms
    /\ lastOp[FileOf(ret.path)] = "revoke"
    /\ ~isAllowed(ret.path).value
    /\ \E q \in StorePaths :
          /\ lastOp[FileOf(q)] = "grant"
          /\ isAllowed(q).value
          /\ perms[FileOf(q)].timestamp < perms[FileOf(ret.path)].timestamp - 1

\* C10: prune removes exactly the entries whose path is no longer on disk,
\* leaves the other entries as they were (flag and timestamp), and a prune
\* that directly follows a prune removes nothing and does not rewrite the
\* store.
C10_PruneRemovesExactlyStale ==
    [][ (ret'.op = "prune" /\ ret'.raised = "none") =>
          LET before == loadPermissions.perms
              gone == {k \in DOMAIN before : ~fileExists(k)}
              after == loadPermissionsOf(storeKind', perms', others')
          IN  /\ after.raised = "none"
              /\ after.perms = [k \in DOMAIN before \ gone |-> before[k]]
              /\ ret'.removed = Cardinality(gone)
              /\ (ret.op = "prune" /\ ret.raised = "none")
                    => (ret'.removed = 0 /\ ~ret'.saved /\ perms' = perms)
      ]_vars

\* A prune that removed an entry and kept the entry of a file that is on
\* disk, stored under a key that reaches it through the symbolic link.
C10_Witness ==
    /\ ret.op = "prune" /\ ret.raised = "none"
    /\ ret.removed >= 1 /\ ret.saved
    /\ \E k \in DOMAIN perms : fileExists(k) /\ k # realpath(k)

(***************************************************************************)
(* Claims on the parser.  The references of a text are read off the        *)
(* variables its lines assign, before any interpolation.                   *)
(***************************************************************************)
\* The variables the lines of the text assign.
Kept == collect(content, NoVars)

\* The defined variables that the raw value of k refers to.
DefinedRefs(k) ==
    { refName(Kept.val[k][i]) :
        i \in { j \in 1..Len(Kept.val[k]) : isRef(Kept.val[k][j]) } }
      \cap DOMAIN Kept.val

RECURSIVE ReachableFrom(_, _)
\* The variables reached from the set `frontier` by one reference or more.
ReachableFrom(frontier, seen) ==
    LET next == UNION { DefinedRefs(k) : k \in frontier }
    IN  IF next \subseteq seen THEN seen
        ELSE ReachableFrom(next \ seen, seen \cup next)

OnCycle(k) == k \in ReachableFrom({k}, {})

HasCycle == \E k \in DOMAIN Kept.val : OnCycle(k)

Max(S) == CHOOSE m \in S : \A x \in S : x <= m

RECURSIVE Levels(_, _)
\* The nested levels of substitution the resolution of k needs, counted up
\* to `fuel`.
Levels(k, fuel) ==
    IF fuel = 0 \/ DefinedRefs(k) = {} THEN 0
    ELSE 1 + Max({ Levels(n, fuel - 1) : n \in DefinedRefs(k) })

TooDeep(k) == Levels(k, MAX_INTERPOLATION_DEPTH + 1) > MAX_INTERPOLATION_DEPTH

RECURSIVE Flatten(_)
Flatten(seqs) == IF seqs = << >> THEN << >> ELSE Head(seqs) \o Flatten(Tail(seqs))

\* A raw value with every reference to a defined variable replaced by that
\* variable's value in the mapping `out`.
Substituted(value, out) ==
    Flatten([i \in 1..Len(value) |->
                IF isRef(value[i]) /\ refName(value[i]) \in DOMAIN Kept.val
                THEN out[refName(value[i])]
                ELSE <<value[i]>>])

\* No name is assigned by two lines of the text.
NoKeyTwice ==
    \A i, j \in 1..Len(content) :
        (i # j /\ parseLine(content[i]).assigns /\ parseLine(content[j]).assigns)
            => parseLine(content[i]).key # parseLine(content[j]).key

\* C5: parse raises a ValidationError and returns no mapping whenever the
\* references among the variables kept from the text form a cycle, of any
\* length, a variable that refers to itself included.
C5_CycleRaisesValidationError ==
    (parsed.done /\ HasCycle)
        => (parsed.raised = "ValidationError" /\ parsed.vars = NoMapping)

\* A cycle through three variables or more, reported as a cycle.
C5_Witness ==
    /\ parsed.done /\ parsed.raised = "ValidationError" /\ parsed.kind = "cycle"
    /\ \E k \in DOMAIN Kept.val :
          OnCycle(k) /\ Cardinality(ReachableFrom({k}, {})) >= 3

\* C6: parse raises a ValidationError for every variable whose resolution
\* needs more than 10 nested levels of substitution, whatever the value at
\* the end of the chain; an acyclic text of at most 10 levels resolves.
C6_DepthCapRaises ==
    parsed.done =>
        /\ (\E k \in DOMAIN Kept.val : TooDeep(k))
              => parsed.raised = "ValidationError"
        /\ (~HasCycle /\ \A k \in DOMAIN Kept.val : ~TooDeep(k))
              => parsed.raised = "none"

\* C7: a reference to a name that the text does not define is left verbatim,
\* raises no error, and the text around it is unchanged.
C7_UndefinedReferenceVerbatim ==
    parsed.done =>
        /\ (\A k \in DOMAIN Kept.val : DefinedRefs(k) = {})
              => parsed.raised = "none"
        /\ parsed.raised = "none"
              => \A k \in DOMAIN Kept.val :
                    DefinedRefs(k) = {} => parsed.vars[k] = Kept.val[k]
        /\ content = << <<"X", "=", "a", Ref("U"), "b">> >>
              => parsed.vars = [k \in {"X"} |-> <<"a", Ref("U"), "b">>]

\* X=a${U}b parsed beside another line.
C7_Witness ==
    /\ parsed.done /\ parsed.raised = "none"
    /\ Len(content) = 2
    /\ "X" \in DOMAIN parsed.vars
    /\ parsed.vars["X"] = <<"a", Ref("U"), "b">>

\* C8: for a text whose references are acyclic and within the depth cap,
\* every value returned equals the raw value with each reference to a
\* defined name replaced by that name's resolved value, wherever the lines
\* stand in the text.
C8_ValuesFullyResolved ==
    (parsed.done /\ ~HasCycle /\ \A k \in DOMAIN Kept.val : ~TooDeep(k))
        => /\ parsed.raised = "none"
           /\ DOMAIN parsed.vars = DOMAIN Kept.val
           /\ \A k \in DOMAIN Kept.val :
                 parsed.vars[k] = Substituted(Kept.val[k], parsed.vars)
           /\ NoKeyTwice => parseEnvFile(Reverse(content)) = parsed

\* A variable used two levels deep, before the lines that define it.
C8_Witness ==
    /\ parsed.done /\ parsed.raised = "none"
    /\ Len(content) >= 3
    /\ LET first == parseLine(content[1])
       IN  /\ first.assigns
           /\ Levels(first.key, MAX_INTERPOLATION_DEPTH + 1) >= 2
           /\ parsed.vars[first.key] = <<"a">>

\* C9: a value fully wrapped in a matching pair of quotes loses exactly that
\* pair; every other value passes through verbatim, trimmed.  (Stated for a
\* text of one line KEY=VALUE whose references are to undefined names.)
C9_QuotesStripOneLayer ==
    (/\ parsed.done /\ parsed.raised = "none"
     /\ Len(content) = 1
     /\ Len(content[1]) >= 2 /\ content[1][2] = "="
     /\ parseLine(content[1]).assigns)
        => LET raw == trim(SubSeq(content[1], 3, Len(content[1])))
               wrapped == /\ Len(raw) >= 2
                          /\ raw[1] \in {DQ, SQ}
                          /\ raw[Len(raw)] = raw[1]
           IN  parsed.vars[content[1][1]] =
                  IF wrapped THEN SubSeq(raw, 2, Len(raw) - 1) ELSE raw

(***************************************************************************)
(* Claims about the loader, under SpecLoad.                                *)
(***************************************************************************)
HomeBase == <<"h", ".envrc">>
HomeProfile == <<"h", ".envrc.dev">>
NearBase == <<"h", "a", ".envrc">>
NearProfile == <<"h", "a", ".envrc.dev">>

\* The store holds an entry with allowed = true for the file.
Granted(f) == f \in DOMAIN perms /\ perms[f].allowed

Loaded == env.op # "none"

\* The variables a file holds, none when its text does not parse or is too large.
Holds(f) ==
    IF textKind[f] = "oversize" \/ parseEnvFile(TextOf(f)).raised # "none"
    THEN NoMapping
    ELSE parseEnvFile(TextOf(f)).vars

\* C2: every variable a load returns comes, with its value, from a file
\* that exists and has an allowed = true entry in the store; files with no
\* entry or a denied one contribute nothing.  With the outer file granted and
\* the nearer one denied, loading from the nearer directory yields the outer
\* file's value.
C2_OnlyGrantedFilesContribute ==
    Loaded =>
        /\ \A k \in DOMAIN env.vars :
              \E f \in PhysFiles :
                  /\ f \in exists
                  /\ Granted(f)
                  /\ k \in DOMAIN Holds(f)
                  /\ env.vars[k] = Holds(f)[k]
        /\ ( /\ env.op = "loadEnvRecursive"
             /\ env.dir = <<"h", "a">>
             /\ HomeBase \in exists /\ Granted(HomeBase) /\ textKind[HomeBase] = "good"
             /\ profiles = NoProfiles
             /\ NearBase \in DOMAIN perms /\ ~perms[NearBase].allowed )
           => env.vars["V"] = <<Tag(HomeBase)>>

C2_Witness ==
    /\ env.op = "loadEnvRecursive"
    /\ env.dir = <<"h", "a">>
    /\ exists = PhysFiles
    /\ Granted(HomeBase)
    /\ NearBase \in DOMAIN perms /\ ~perms[NearBase].allowed
    /\ NearProfile \notin DOMAIN perms
    /\ profiles = [d \in {<<"h", "a">>} |-> "dev"]
    /\ env.vars["V"] = <<"hB">>

\* C3: no name of the dangerous set is a key of what parsing a file's text
\* yields, nor of what loadUpward or loadSingle returns.
C3_NoDangerousKeyReturned ==
    /\ \A f \in PhysFiles :
          parseEnvFile(TextOf(f)).raised = "none"
              => DOMAIN parseEnvFile(TextOf(f)).vars \cap DANGEROUS_ENV_VARS = {}
    /\ Loaded => DOMAIN env.vars \cap DANGEROUS_ENV_VARS = {}

C3_Witness ==
    /\ env.op = "loadEnvFromDirDown"
    /\ env.dir = <<"h", "a">>
    /\ Granted(NearBase)
    /\ textKind[NearBase] = "good"
    /\ \E i \in 1..Len(TextOf(NearBase)) : parseLine(TextOf(NearBase)[i]).dangerous
    /\ "V" \in DOMAIN env.vars

\* The file contributes to its directory: it exists, is granted, parses, and
\* (for an overlay) its profile is the directory's active one.
Contributes(f) ==
    /\ f \in exists
    /\ Granted(f)
    /\ "V" \in DOMAIN Holds(f)
    /\ f \in {HomeProfile, NearProfile} =>
          (Front(f) \in DOMAIN profiles /\ profiles[Front(f)] = "dev")

\* C4: when the start directory and home both define V in granted files,
\* loadUpward from the start directory returns the nearer directory's V, also
\* when the outer value comes from the profile overlay and the nearer one
\* from the base file.
C4_NearerDirectoryWins ==
    ( /\ env.op = "loadEnvRecursive"
      /\ env.dir \in { <<"h", "a">>, <<"h", "l">> }
      /\ Contributes(HomeBase) \/ Contributes(HomeProfile)
      /\ Contributes(NearBase) \/ Contributes(NearProfile) )
    => /\ "V" \in DOMAIN env.vars
       /\ env.vars["V"] = IF Contributes(NearProfile)
                          THEN <<Tag(NearProfile)>> ELSE <<Tag(NearBase)>>

C4_Witness ==
    /\ env.op = "loadEnvRecursive"
    /\ env.dir = <<"h", "l">>
    /\ Contributes(HomeBase)
    /\ Contributes(HomeProfile)
    /\ Contributes(NearBase)
    /\ ~Contributes(NearProfile)
    /\ env.vars["V"] = <<"aB">>

(***************************************************************************)
(* Claims on the permissions file in any condition, under SpecStore.       *)
(***************************************************************************)
\* The entries the permissions file holds.
EntryCount == Cardinality(DOMAIN perms) + others

\* C11: a grant or revoke of a path whose string holds ".." fails with a
\* SecurityError and leaves the permissions file as it was, whatever its
\* condition (it is neither read nor written); isAllowed of such a path
\* returns false and raises nothing.
C11_TraversalNeverGranted ==
    /\ [](\A p \in SafetyPaths :
             hasTraversal(p) => isAllowed(p) = [raised |-> "none", value |-> FALSE])
    /\ [][(ret'.op \in {"allow", "deny"} /\ hasTraversal(ret'.path) /\ now' # now)
             => /\ ret'.raised = "SecurityError"
                /\ ~ret'.saved
                /\ UNCHANGED <<storeKind, perms, others>>]_vars

\* A grant of a traversal path refused although the permissions file could
\* not have been loaded.
C11_Witness ==
    /\ ret.op = "allow"
    /\ ret.path = <<"h", "a", "..", ".envrc">>
    /\ ret.raised = "SecurityError"
    /\ storeKind = "oversize"

BadProfileName(cs) ==
    \/ cs = << >>
    \/ Len(cs) > 64
    \/ cs[1] \notin FirstChars
    \/ \E i \in 2..Len(cs) : cs[i] \notin RestChars

\* C12: setActiveProfile raises a ValidationError and leaves the profile
\* store unchanged when the name is empty, longer than 64 characters or off
\* the pattern; a valid name of exactly 64 characters is accepted.
C12_BadProfileNameRejected ==
    [][profOp'.op = "setActiveProfile" =>
          /\ BadProfileName(profOp'.name)
                => (profOp'.raised = "ValidationError" /\ profiles' = profiles)
          /\ profOp'.name = Rep("Z", 64)
                => /\ profOp'.raised = "none"
                   /\ getActiveProfileIn(profiles', profOp'.dir) = nameOf(Rep("Z", 64))]_vars

\* A name starting with a hyphen refused on a directory that has a profile.
C12_Witness ==
    /\ profOp.op = "setActiveProfile"
    /\ profOp.name = <<"-", "d">>
    /\ profOp.raised = "ValidationError"
    /\ profOp.dir = <<"h", "a">>
    /\ getActiveProfile(<<"h", "a">>) = "dev"

\* The two paths name the same directory.
SameDir(d, e) == FileOf(d) = FileOf(e)

\* C13: from an empty profile store, getActiveProfile(d) is the name of the
\* most recent successful setActiveProfile on d that no clearActiveProfile
\* on d followed, and none otherwise: each call changes what d has and
\* nothing of any other directory.
C13_LastProfileCallDecides ==
    /\ \A d \in ProfileDirs : getActiveProfile(d) = ""
    /\ [][\A e \in ProfileDirs :
             getActiveProfile(e)' =
                IF ~SameDir(e, profOp'.dir) \/ profOp'.raised # "none"
                THEN getActiveProfile(e)
                ELSE IF profOp'.op = "setActiveProfile"
                THEN nameOf(profOp'.name)
                ELSE ""]_vars

\* A profile cleared through the symbolic link while home keeps its own.
C13_Witness ==
    /\ profOp.op = "clearActiveProfile"
    /\ profOp.dir = <<"h", "l">>
    /\ getActiveProfile(<<"h", "a">>) = ""
    /\ getActiveProfile(<<"h">>) = "dev"

(***************************************************************************)
(* Further claims on the loader, under SpecLoad.                           *)
(***************************************************************************)
BaseOf(d) == d \o <<".envrc">>

ProfileOf(d) == d \o <<".envrc.dev">>

\* The directory a load was started from.
StartDir == FileOf(env.dir)

\* The profile dev is the active one of the directory of the file.
ProfileActive(f) == Front(f) \in DOMAIN profiles /\ profiles[Front(f)] = "dev"

\* C14: loadEnvFromDirDown(d) returns only variables of d's own base file
\* and profile file, with the values these give them; the files of the
\* directories above d contribute nothing, granted or not.
C14_SingleLoadsOwnFilesOnly ==
    env.op = "loadEnvFromDirDown" =>
        /\ \A k \in DOMAIN env.vars :
              \E f \in {BaseOf(StartDir), ProfileOf(StartDir)} \cap PhysFiles :
                  /\ k \in DOMAIN Holds(f)
                  /\ env.vars[k] = Holds(f)[k]
        /\ StartDir = <<"h", "a">>
              => DOMAIN env.vars \cap {Own(HomeBase), Own(HomeProfile)} = {}

\* The directory loaded alone while the files of home are granted and its
\* profile active.
C14_Witness ==
    /\ env.op = "loadEnvFromDirDown"
    /\ env.dir = <<"h", "a">>
    /\ Contributes(HomeBase) /\ Contributes(HomeProfile)
    /\ Contributes(NearBase)
    /\ env.vars["V"] = <<"aB">>

\* C15: in a directory with an active profile whose granted base and profile
\* files both define V, the load of that directory returns the profile's V
\* and keeps the variable that only the base file defines.
C15_ProfileOverridesBase ==
    (/\ Loaded
     /\ StartDir \in { <<"h">>, <<"h", "a">> }
     /\ Contributes(BaseOf(StartDir))
     /\ Contributes(ProfileOf(StartDir)))
        => /\ env.vars["V"] = <<Tag(ProfileOf(StartDir))>>
           /\ Own(BaseOf(StartDir)) \in DOMAIN env.vars
           /\ env.vars[Own(BaseOf(StartDir))] = <<Tag(BaseOf(StartDir)), "b">>

C15_Witness ==
    /\ env.op = "loadEnvFromDirDown"
    /\ env.dir = <<"h", "l">>
    /\ Contributes(NearBase) /\ Contributes(NearProfile)
    /\ env.vars["V"] = <<"aP">>
    /\ env.vars["AB"] = <<"aB", "b">>

\* What a file gives to a load: its variables when it exists, is granted,
\* is small enough and parses (and, for an overlay, when its profile is the
\* active one); nothing otherwise.
Yields(f) ==
    IF /\ f \in PhysFiles
       /\ f \in exists
       /\ Granted(f)
       /\ f \in {HomeProfile, NearProfile} => ProfileActive(f)
    THEN Holds(f)
    ELSE NoMapping

Over(a, b) ==
    [k \in DOMAIN a \cup DOMAIN b |-> IF k \in DOMAIN b THEN b[k] ELSE a[k]]

DirYields(d) == Over(Yields(BaseOf(d)), Yields(ProfileOf(d)))

\* C17: loadEnvRecursive raises nothing and returns, merged from home
\* inwards, what each directory of the chain yields: nothing from a file that
\* is missing, not granted, too large or fails to parse, and from every other
\* directory what it yields when that file is not there.
C17_FailedDirectoryIsSkipped ==
    env.op = "loadEnvRecursive" =>
        /\ env.raised = "none"
        /\ env.vars = IF StartDir = <<"h", "a">>
                      THEN Over(DirYields(<<"h">>), DirYields(<<"h", "a">>))
                      ELSE IF StartDir = <<"h">> THEN DirYields(<<"h">>)
                      ELSE NoMapping

\* The walk goes on past home's base file, which is granted and does not
\* parse.
C17_Witness ==
    /\ env.op = "loadEnvRecursive"
    /\ env.dir = <<"h", "a">>
    /\ HomeBase \in exists /\ Granted(HomeBase) /\ textKind[HomeBase] = "cyclic"
    /\ profiles = NoProfiles
    /\ Contributes(NearBase)
    /\ env.vars = Holds(NearBase)

\* A file the load reads and that holds a reference cycle.
MetCyclic(f) ==
    /\ f \in PhysFiles /\ f \in exists /\ Granted(f) /\ textKind[f] = "cyclic"
    /\ f \in {HomeProfile, NearProfile} => ProfileActive(f)
    /\ \/ Front(f) = StartDir
       \/ env.op = "loadEnvRecursive" /\ StartDir = <<"h", "a">>

\* C18: a load that meets a granted file with a reference cycle is aborted
\* and reaches the caller as a ValidationError, not as a mapping.
C18_StructuralFailureAborts ==
    (Loaded /\ \E f \in PhysFiles : MetCyclic(f))
        => env.raised = "ValidationError"

(***************************************************************************)
(* Claims on the names a text may use, under SpecNames.                    *)
(***************************************************************************)
\* C19: for every text, parse returns a mapping or raises a ValidationError
\* and nothing else, whatever names the text defines or refers to, those of
\* built-in object members (hasOwnProperty, constructor, __proto__) included.
C19_OnlyValidationErrorEscapes ==
    parsed.done => parsed.raised \in {"none", "ValidationError"}

(***************************************************************************)
(* Claims on the reload command, under SpecReload.                         *)
(***************************************************************************)
\* C20: handleReload completes without throwing for every environment that
\* loadEnvRecursive returns: each key passes validateVariableName, so every
\* variable is printed as an export line.
C20_ReloadNeverThrows ==
    env.op = "handleReload" =>
        /\ env.raised = "none"
        /\ \A k \in DOMAIN env.vars : validateVariableName(k) = "none"
        /\ { env.printed[i] : i \in 1..Len(env.printed) } = DOMAIN env.vars

(***************************************************************************)
(* Claims on the size of the store and on its keys.                        *)
(***************************************************************************)
\* C21: once the permissions file loads, it loads after every grant, revoke
\* and prune: the file never comes to hold more than 10,000 entries.
C21_StoreStaysWithinCap ==
    [][loadPermissions.raised = "none"
          => /\ loadPermissionsOf(storeKind', perms', others').raised = "none"
             /\ Cardinality(DOMAIN perms') + others' <= MAX_PERMISSIONS_ENTRIES]_vars

\* The file a path denotes, on disk or not: the symbolic links of its
\* directory resolved.
Denoted(p) ==
    IF realpath(Front(p)) # ENOENT
    THEN Append(realpath(Front(p)), Last(p))
    ELSE pathResolve(p)

\* C22: the store holds at most one entry per configuration file, and a
\* revoke through one path of a file is seen by isAllowed through every
\* path of that file, whether or not the file was on disk at the earlier
\* calls.
C22_OneKeyPerFile ==
    /\ \A k1, k2 \in DOMAIN perms : Denoted(k1) = Denoted(k2) => k1 = k2
    /\ (ret.op = "deny" /\ ret.raised = "none")
          => \A q \in StorePaths :
                (validatePathSafety(q) = "none" /\ Denoted(q) = Denoted(ret.path))
                    => ~isAllowed(q).value

(***************************************************************************)
(* Claims on the profile overlay and on dangerous values.                  *)
(***************************************************************************)
\* C26: a profile file that is active, on disk and parses gives its
\* variables to the load of its directory exactly when the file itself is
\* granted, whatever the base file of the directory is: granted, denied,
\* missing, too large or unparseable.
C26_ProfileHasOwnPermission ==
    (/\ Loaded
     /\ StartDir \in { <<"h">>, <<"h", "a">> }
     /\ ProfileActive(ProfileOf(StartDir))
     /\ ProfileOf(StartDir) \in exists
     /\ textKind[ProfileOf(StartDir)] = "good")
        => /\ (Own(ProfileOf(StartDir)) \in DOMAIN env.vars) <=> Granted(ProfileOf(StartDir))
           /\ Granted(ProfileOf(StartDir))
                 => env.vars["V"] = <<Tag(ProfileOf(StartDir))>>
           /\ ~Granted(ProfileOf(StartDir))
                 => \A k \in DOMAIN env.vars : env.vars[k][1] # Tag(ProfileOf(StartDir))

\* A granted profile file loaded beside a base file that is granted and does
\* not parse.
C26_Witness ==
    /\ env.op = "loadEnvFromDirDown"
    /\ env.dir = <<"h", "a">>
    /\ ProfileActive(NearProfile) /\ Granted(NearProfile)
    /\ Granted(NearBase) /\ textKind[NearBase] = "cyclic"
    /\ env.vars["V"] = <<"aP">>
    /\ "AB" \notin DOMAIN env.vars

\* The values a dangerous variable is given in the texts compared.
DangerValues ==
    { << >>, <<"a">>, <<"c", "d">>, <<Ref("A")>>, <<DQ, "c", DQ>>, <<"a", "=", "c">> }

\* The line with everything after its first "=" replaced by v.
withValue(line, v) == SubSeq(line, 1, indexOf(line, "=")) \o v

\* The texts that differ from lines at most in the values their lines give
\* to dangerous variables.
DangerLines(lines) == { i \in 1..Len(lines) : parseLine(lines[i]).dangerous }

DangerVariants(lines) ==
    { [i \in 1..Len(lines) |->
          IF i \in DangerLines(lines) THEN withValue(lines[i], vs[i]) ELSE lines[i]]
      : vs \in [DangerLines(lines) -> DangerValues] }

\* C29: two texts that differ only in the value given to a dangerous
\* variable parse to the same result, and a reference to a dangerous name
\* stays in the values as written.
C29_DangerousValueNeverRead ==
    parsed.done
        => /\ \A t \in DangerVariants(content) :
                 /\ dangerousOf(t) = dangerousOf(content)
                 /\ parseEnvFile(t) = parsed
           /\ \A i \in 1..Len(content) :
                 (/\ content[i] = <<"A", "=", Ref("PATH")>>
                  /\ parsed.raised = "none"
                  /\ \A j \in i + 1..Len(content) : parseLine(content[j]).key # "A")
                     => parsed.vars["A"] = <<Ref("PATH")>>

\* A text that assigns PATH and refers to it has been parsed.
C29_Witness ==
    /\ parsed.done
    /\ parsed.raised = "none"
    /\ "PATH" \in dangerousOf(content)
    /\ "A" \in DOMAIN parsed.vars
    /\ parsed.vars["A"] = <<Ref("PATH")>>
    /\ Cardinality(DangerVariants(content)) > 1


(***************************************************************************)
(* Claims on the path validator.                                           *)
(***************************************************************************)
\* C27: validateAndResolvePath on a path without "..", that resolves outside
\* every trusted base and holds no exempt substring, returns the resolved
\* path: being outside the trusted bases is not a failure.
C27_OutsideOnlyWarns ==
    (/\ checked.op = "validateAndResolvePath"
     /\ checked.path # EmptyPath
     /\ ~hasTraversal(checked.path)
     /\ ~isDev(resolvePath(checked.path))
     /\ \A basePath \in checked.bases : ~withinBase(resolvePath(checked.path), basePath))
        => /\ checked.raised = "none"
           /\ checked.value = resolvePath(checked.path)

(***************************************************************************)
(* Claims on the upward walk.                                              *)
(***************************************************************************)
\* The directory a path of the chain is, whatever its spelling.
Physical(p) == resolveOn(walked.layout, << >>, p, MaxLinks)

NoDirectoryTwice ==
    \A i, j \in 1..Len(walked.dirs) :
        Physical(walked.dirs[i]) = Physical(walked.dirs[j]) => i = j

\* C23: the upward walk ends on every layout and from every start directory,
\* and at no time does its chain hold a directory twice.
C23_WalkTerminates ==
    /\ <>(walked.pc = "done")
    /\ [](NoDirectoryTwice)

\* A walk has ended on the visited test, at a directory it came to by a
\* symbolic link to an ancestor.
C23_Witness ==
    /\ walked.pc = "done"
    /\ walked.why = "visited"
    /\ walked.startDir = <<"h", "a", "up">>
    /\ walked.dirs = << <<"h", "a", "up">>, <<"h", "a">> >>

\* C24: the walk stops on the visited test only at a directory whose device
\* and inode it has in its chain already.
C24_VisitedByDeviceAndInode ==
    (walked.pc = "done" /\ walked.why = "visited")
        => \E i \in 1..Len(walked.dirs) :
              statOn(walked.layout, walked.dirs[i])
                  = statOn(walked.layout, walked.currentDir)

isPrefix(p, q) == Len(p) <= Len(q) /\ SubSeq(q, 1, Len(p)) = p

\* The start directory is the home directory or lies beneath it.
BeneathHome ==
    /\ Physical(walked.startDir) \notin Errno
    /\ Physical(walked.layout.home) \notin Errno
    /\ isPrefix(Physical(walked.layout.home), Physical(walked.startDir))

\* C25: a walk that no stat failure and no visited inode cut short ends at the
\* home directory when it started at or beneath it, with no directory above
\* home in its chain, and at the root when it started elsewhere.
C25_ChainEndsAtHome ==
    (walked.pc = "done" /\ walked.why \notin {"stat", "visited"})
        => IF BeneathHome
           THEN /\ Physical(walked.dirs[Len(walked.dirs)]) = Physical(walked.layout.home)
                /\ \A i \in 1..Len(walked.dirs) :
                      isPrefix(Physical(walked.layout.home), Physical(walked.dirs[i]))
           ELSE walked.dirs[Len(walked.dirs)] = << >>

(***************************************************************************)
(* Claims on invocations side by side.                                     *)
(***************************************************************************)
\* C28: once a revoke of a file has completed, and no grant of it has been
\* issued since or was under way, isAllowed of the file is false, whatever
\* other invocations read and rewrite the store meanwhile.
C28_RevokeSurvivesConcurrency ==
    \A p \in StoreFiles :
        lastOp[p] = "revoke" => ~isAllowed(p).value

(***************************************************************************)
(* Claims on the self-update.                                              *)
(***************************************************************************)
\* checksums.txt of the release lists the hash for the binary of the platform.
Lists(hash) ==
    /\ CHECKSUMS_FILE_NAME \in update.assets
    /\ \E i \in 1..Len(update.checksumText) :
          /\ Len(update.checksumText[i]) >= 2
          /\ update.checksumText[i][1] = hash
          /\ update.checksumText[i][2] = BinaryName

\* C30: without --skip-verify, a step writes the install path only when the
\* SHA-256 of the downloaded file is listed for the binary of the platform in
\* checksums.txt, and what it writes is that file; a run that met a missing
\* checksums asset, a missing entry or a mismatch leaves the install path as
\* it was.
C30_InstallOnlyAfterVerification ==
    [][(~update.skipVerify /\ update.installed' # update.installed)
          => /\ Lists(sha256(update.tempBinary))
             /\ update.tempBinary = update.served
             /\ update.installed' = update.tempBinary]_vars

\* A verified binary has been installed.
C30_Witness ==
    /\ update.pc = "done"
    /\ ~update.skipVerify
    /\ update.installed = "genuine"
    /\ update.checksums[BinaryName] = sha256("genuine")
=============================================================================
